---------------------------- MODULE Spec2Model ----------------------------
(***************************************************************************)
(* Model of the black-box log parser (src/bb_parser.py, src/Data_Input.py). *)
(*                                                                         *)
(* One run is processed by process_bb_files in three passes over files     *)
(* that the simulator produced: the log-line pass                          *)
(* (search_for_log_msg_errors), the pose pass                              *)
(* (search_for_stationary_errors) and the sensor pass                      *)
(* (search_for_prox_reading_errors); the run is then folded into the       *)
(* cross-run statistics.  Every loop iteration of a pass is one action.    *)
(***************************************************************************)
EXTENDS Integers, Sequences, FiniteSets, TLC

(***************************************************************************)
(* Bounds of the model.                                                    *)
(***************************************************************************)
MaxRows == 4
MaxLines == 3
MaxRuns == 2
MaxSubsamples == 13
MaxVoltRows == 11

(***************************************************************************)
(* Program constants (BB_Parser.__init__).                                 *)
(***************************************************************************)
LOGGING_FREQUENCY == 10
READING_SUBSAMPLE_TIME == 500
STATIONARY_POSE_THRESHOLD == 30
STATIONARY_TIME_THRESHOLD == 5000
RAW_CEILING == 255
EXT_VOLTAGE_SAMPLES == 10

READING_SUBSAMPLE_ITERS == READING_SUBSAMPLE_TIME \div LOGGING_FREQUENCY
STATIONARY_TIME_ITERS_THRESHOLD == STATIONARY_TIME_THRESHOLD \div READING_SUBSAMPLE_TIME
STALE_TOF_READING_THRESHOLD == 100 * LOGGING_FREQUENCY

\* variant: a gap of exactly the threshold is an error as well
ExceedsLoggingGapThresholdInclusive(gap) == 2 * gap >= 3 * LOGGING_FREQUENCY

\* LOGGING_GAP_ERROR_THRESHOLD is 1.5 * LOGGING_FREQUENCY; the comparison
\* logging_gap > threshold is kept in integers by doubling both sides.
ExceedsLoggingGapThreshold(gap) == 2 * gap > 3 * LOGGING_FREQUENCY

(***************************************************************************)
(* Python dictionaries: a function whose domain is the set of keys.        *)
(* Get is the read of a defaultdict(int) that leaves no key behind, Touch  *)
(* is the read that does (d[k] on a defaultdict inserts the default).      *)
(***************************************************************************)
EmptyDict == [k \in {} |-> 0]
Has(d, k) == k \in DOMAIN d
Get(d, k) == IF k \in DOMAIN d THEN d[k] ELSE 0
Put(d, k, v) == [x \in (DOMAIN d) \cup {k} |-> IF x = k THEN v ELSE d[x]]
Touch(d, k) == IF k \in DOMAIN d THEN d ELSE Put(d, k, 0)
Inc(d, k) == Put(d, k, Get(d, k) + 1)
Pop(d, k) == [x \in (DOMAIN d) \ {k} |-> d[x]]

None == "None"

VARIABLES
    pc,
    \* process_bb_files
    nfiles, log_idx, error_count, summary_row, autonomy_row,
    autonomy_statistics, statistics_order, overall_error_count,
    autonomy_csv, transitions_csv, run_results,
    \* search_for_log_msg_errors
    log_lines, raised_errors, cleaning_started, nav_falling_timestamps,
    base_reconnected_timestamp, last_robot_state_transition,
    \* search_for_stationary_errors
    cnt, cur_pose, last_pose, stationary_count, stationary_errors, pose_seen,
    \* search_for_prox_reading_errors
    num_rows, prox_rows, prev_timestamp,
    i2c_bus_error_start_time, last_i2c_bus_error, i2c_bus_errors,
    tof_reading_start_time, last_tof_reading, stale_tof_readings,
    logging_gap_errors, ext_voltage_counter, avg_ext_voltage

poseVars == <<cnt, cur_pose, last_pose, stationary_count, stationary_errors,
              pose_seen>>
proxVars == <<num_rows, prox_rows, prev_timestamp,
              i2c_bus_error_start_time, last_i2c_bus_error, i2c_bus_errors,
              tof_reading_start_time, last_tof_reading, stale_tof_readings,
              logging_gap_errors, ext_voltage_counter, avg_ext_voltage>>
logVars == <<log_lines, raised_errors, cleaning_started, nav_falling_timestamps,
             base_reconnected_timestamp, last_robot_state_transition>>
batchVars == <<nfiles, log_idx, summary_row, autonomy_row,
               autonomy_statistics, statistics_order, overall_error_count,
               autonomy_csv, transitions_csv, run_results>>
vars == <<pc, error_count, batchVars, logVars, poseVars, proxVars>>

(***************************************************************************)
(* search_for_stationary_errors                                            *)
(***************************************************************************)
PosePositions == {<<0, 0>>, <<10, 0>>, <<30, 0>>, <<100, 0>>}
MaxPoseRows == READING_SUBSAMPLE_ITERS * (MaxSubsamples - 1) + 1

\* variant: a displacement of exactly the threshold counts as stationary
WithinStationaryThresholdInclusive(cur, pose) ==
    LET dx == cur[1] - pose[1]
        dy == cur[2] - pose[2]
    IN  dx * dx + dy * dy <= STATIONARY_POSE_THRESHOLD * STATIONARY_POSE_THRESHOLD

\* np.linalg.norm(cur_pose - last_pose) < STATIONARY_POSE_THRESHOLD, squared
OriginPose == <<0, 0>>
WithinStationaryThreshold(cur, pose) ==
    LET dx == cur[1] - pose[1]
        dy == cur[2] - pose[2]
    IN  dx * dx + dy * dy < STATIONARY_POSE_THRESHOLD * STATIONARY_POSE_THRESHOLD

PoseLocalsInit ==
    /\ cnt = 0
    /\ cur_pose = <<>>
    /\ last_pose = OriginPose
    /\ stationary_count = 0
    /\ stationary_errors = <<>>
    /\ pose_seen = {}

\* one iteration of "for cnt, row in enumerate(reader)"
PoseRow ==
    /\ pc = "pose"
    /\ cnt < MaxPoseRows
    /\ \E pose \in PosePositions :
        IF cnt % READING_SUBSAMPLE_ITERS = 0
        THEN /\ cur_pose' = pose
             /\ pose_seen' = pose_seen \cup {pose}
             /\ IF WithinStationaryThreshold(pose, last_pose)
                THEN /\ stationary_count' = stationary_count + 1
                     /\ UNCHANGED <<stationary_errors, error_count, last_pose>>
                ELSE /\ IF stationary_count > STATIONARY_TIME_ITERS_THRESHOLD
                        THEN /\ stationary_errors' = Append(stationary_errors,
                                    stationary_count * READING_SUBSAMPLE_TIME)
                             /\ error_count' = Inc(error_count, "ROBOT_STATIONARY_ERROR")
                        ELSE UNCHANGED <<stationary_errors, error_count>>
                     /\ stationary_count' = 0
                     /\ last_pose' = pose
        ELSE UNCHANGED <<cur_pose, pose_seen, stationary_count, stationary_errors,
                         error_count, last_pose>>
    /\ cnt' = cnt + 1
    /\ UNCHANGED <<pc, batchVars, logVars, proxVars>>

\* variant: the function returns without the check after the loop
PoseReturnWithoutFlush ==
    /\ pc = "pose"
    /\ pc' = "pose_returned"
    /\ UNCHANGED <<error_count, batchVars, logVars, poseVars, proxVars>>

\* end of the pose file: the check after the loop, and the return
PoseReturn ==
    /\ pc = "pose"
    /\ IF stationary_count > STATIONARY_TIME_ITERS_THRESHOLD
       THEN /\ stationary_errors' = Append(stationary_errors,
                                        stationary_count * READING_SUBSAMPLE_TIME)
            /\ error_count' = Inc(error_count, "ROBOT_STATIONARY_ERROR")
       ELSE UNCHANGED <<stationary_errors, error_count>>
    /\ pc' = "pose_returned"
    /\ UNCHANGED <<cnt, cur_pose, last_pose, stationary_count, pose_seen,
                   batchVars, logVars, proxVars>>

\* number of subsampled rows among the first c rows
Subsamples(c) == (c + READING_SUBSAMPLE_ITERS - 1) \div READING_SUBSAMPLE_ITERS

(***************************************************************************)
(* Python floats (IEEE 754 binary64) for the values the voltage averager   *)
(* adds up: a non-negative float below 2^24 that is a multiple of 2^-72 is *)
(* the number of its 2^-72 units, written as four limbs of 24 bits, least  *)
(* significant first.  Every quotient v/10 of an integer 0 <= v < 2^24 and *)
(* every sum of such quotients below 2^24 is such a float.                 *)
(***************************************************************************)
Limb == 2^24
FloatZero == <<0, 0, 0, 0>>
FloatInt(a) == a[4]

\* the exact sum of two numbers of units
AddLimbs(a, b) ==
    LET s1 == a[1] + b[1]
        s2 == a[2] + b[2] + (s1 \div Limb)
        s3 == a[3] + b[3] + (s2 \div Limb)
        s4 == a[4] + b[4] + (s3 \div Limb)
    IN  <<s1 % Limb, s2 % Limb, s3 % Limb, s4>>

RECURSIVE BitLength(_)
BitLength(n) == IF n = 0 THEN 0 ELSE 1 + BitLength(n \div 2)
\* the number of bits of a number of units, and its bit i (bit 0 is the least)
LimbsBitLength(a) ==
    IF a[4] # 0 THEN 72 + BitLength(a[4])
    ELSE IF a[3] # 0 THEN 48 + BitLength(a[3])
    ELSE IF a[2] # 0 THEN 24 + BitLength(a[2])
    ELSE BitLength(a[1])
BitAt(a, i) == (a[(i \div 24) + 1] \div (2^(i % 24))) % 2

\* round to nearest, ties to even, to the 53 significant bits of a float;
\* sticky tells that the exact value lies above the number of units given
RoundToFloat(a, sticky) ==
    LET cut == LimbsBitLength(a) - 53
    IN  IF cut <= 0 THEN a
        ELSE LET kept == [k \in 1..4 |->
                            IF cut >= 24 * k THEN 0
                            ELSE IF cut <= 24 * (k - 1) THEN a[k]
                            ELSE (a[k] \div (2^(cut - 24 * (k - 1))))
                                    * (2^(cut - 24 * (k - 1)))]
                 ulp == [k \in 1..4 |->
                            IF cut \div 24 = k - 1 THEN 2^(cut % 24) ELSE 0]
                 below == sticky \/ \E i \in 0..(cut - 2) : BitAt(a, i) = 1
             IN  IF BitAt(a, cut - 1) = 1 /\ (below \/ BitAt(a, cut) = 1)
                 THEN AddLimbs(kept, ulp) ELSE kept

\* int(v) / 10: the float nearest to the quotient
DivideByTen(v) ==
    LET r4 == v % 10
        r3 == (r4 * Limb) % 10
        r2 == (r3 * Limb) % 10
        r1 == (r2 * Limb) % 10
    IN  RoundToFloat(<<(r2 * Limb) \div 10, (r3 * Limb) \div 10,
                       (r4 * Limb) \div 10, v \div 10>>, r1 # 0)

\* a + b on floats
AddFloat(a, b) == RoundToFloat(AddLimbs(a, b), FALSE)

(***************************************************************************)
(* search_for_prox_reading_errors                                          *)
(***************************************************************************)
\* PROX_ERROR_FIELDS_OF_INTEREST (configuration document)
TOF_SENSOR_ERRORS_FIELDS == <<"TofLeft", "TofRight">>
STALE_TOF_READINGS_FIELDS == <<"TofLeft", "TofRight">>
EXTERNAL_VOLTAGE_FIELD == "ExtVoltage"
PROX_READING_TIMESTAMP_FIELD == "TimeInMS"

\* hex(n) for n >= 0
HexDigit == <<"0", "1", "2", "3", "4", "5", "6", "7",
              "8", "9", "a", "b", "c", "d", "e", "f">>
RECURSIVE HexDigits(_)
HexDigits(n) == IF n < 16 THEN <<HexDigit[n + 1]>>
                ELSE Append(HexDigits(n \div 16), HexDigit[(n % 16) + 1])
Hex(n) == <<"0", "x">> \o HexDigits(n)

\* 0xFF00 & v for v >= 0
MaskHighByte(v) == ((v \div 256) % 256) * 256

\* TOF_ERROR_CODES (configuration document): hex string -> [label, ...]
TOF_ERROR_CODES ==
    [k \in {<<"0", "x", "8", "1", "0", "0">>, <<"0", "x", "8", "2", "0", "0">>} |->
        IF k = <<"0", "x", "8", "1", "0", "0">> THEN "ERR1" ELSE "ERR2"]

\* the loop "for field in fields" of the TOF_SENSOR_ERRORS branch
RECURSIVE TofErrorReading(_, _, _)
TofErrorReading(row, k, cur) ==
    IF k > Len(TOF_SENSOR_ERRORS_FIELDS) THEN cur
    ELSE LET tof_sensor_code == Hex(MaskHighByte(row[TOF_SENSOR_ERRORS_FIELDS[k]]))
         IN  TofErrorReading(row, k + 1,
                IF tof_sensor_code \in DOMAIN TOF_ERROR_CODES
                THEN TOF_ERROR_CODES[tof_sensor_code] ELSE cur)
CurTofErrorReading(row) == TofErrorReading(row, 1, None)

NoStartTime == -1
BusErrorOpen(start_time) == start_time > 0

\* variant: the interval is recorded with the label of the row that closes it
BusErrorStepRecordingCurrent(s, cur, ts, is_last) ==
    IF s.last # cur \/ is_last
    THEN LET closed == IF BusErrorOpen(s.start)
                       THEN [s EXCEPT !.errors = Put(s.errors, s.start,
                                                   <<cur, ts - s.start>>),
                                      !.last = cur,
                                      !.start = NoStartTime]
                       ELSE s
         IN  IF closed.start < 0 /\ cur # None
             THEN [closed EXCEPT !.count = closed.count + 1,
                                 !.start = ts,
                                 !.last = cur]
             ELSE closed
    ELSE s

\* the TOF_SENSOR_ERRORS branch for one row; the state is
\* [start, last, errors, count]
BusErrorStep(s, cur, ts, is_last) ==
    IF s.last # cur \/ is_last
    THEN LET closed == IF BusErrorOpen(s.start)
                       THEN [s EXCEPT !.errors = Put(s.errors, s.start,
                                                   <<s.last, ts - s.start>>),
                                      !.last = cur,
                                      !.start = NoStartTime]
                       ELSE s
         IN  IF closed.start < 0 /\ cur # None
             THEN [closed EXCEPT !.count = closed.count + 1,
                                 !.start = ts,
                                 !.last = cur]
             ELSE closed
    ELSE s

StaleStartValid(start_time) == start_time > 0

\* variant: a repeated value above the raw ceiling keeps its hold
StaleFieldStepHoldingAboveCeiling(s, field, tof_reading, ts, is_last) ==
    IF tof_reading # s.last[field] \/ is_last
    THEN LET tof_reading_duration == ts - s.start[field]
             stale == IF /\ tof_reading_duration > STALE_TOF_READING_THRESHOLD
                         /\ StaleStartValid(s.start[field])
                      THEN Put(s.stale, <<s.start[field], field>>,
                               <<s.last[field], tof_reading_duration>>)
                      ELSE s.stale
         IN  [start |-> [s.start EXCEPT ![field] = ts],
              last |-> [s.last EXCEPT ![field] = tof_reading],
              stale |-> stale]
    ELSE s

\* the STALE_TOF_READINGS branch for one row and one field; the state is
\* [start, last, stale] with start and last indexed by field
StaleFieldStep(s, field, tof_reading, ts, is_last) ==
    IF tof_reading # s.last[field] \/ tof_reading > RAW_CEILING \/ is_last
    THEN LET tof_reading_duration == ts - s.start[field]
             stale == IF /\ tof_reading_duration > STALE_TOF_READING_THRESHOLD
                         /\ StaleStartValid(s.start[field])
                      THEN Put(s.stale, <<s.start[field], field>>,
                               <<s.last[field], tof_reading_duration>>)
                      ELSE s.stale
         IN  [start |-> [s.start EXCEPT ![field] = ts],
              last |-> [s.last EXCEPT ![field] = tof_reading],
              stale |-> stale]
    ELSE s

RECURSIVE StaleStep(_, _, _, _, _)
StaleStep(s, row, k, ts, is_last) ==
    IF k > Len(STALE_TOF_READINGS_FIELDS) THEN s
    ELSE StaleStep(StaleFieldStep(s, STALE_TOF_READINGS_FIELDS[k],
                                  row[STALE_TOF_READINGS_FIELDS[k]], ts, is_last),
                   row, k + 1, ts, is_last)

PrevTimestampValid(prev) == prev > 0

ProxLocalsInit ==
    /\ prox_rows = <<>>
    /\ prev_timestamp = -1
    /\ i2c_bus_error_start_time = NoStartTime
    /\ last_i2c_bus_error = None
    /\ i2c_bus_errors = EmptyDict
    /\ tof_reading_start_time = [f \in {STALE_TOF_READINGS_FIELDS[k] :
                                    k \in DOMAIN STALE_TOF_READINGS_FIELDS} |-> -1]
    /\ last_tof_reading = [f \in {STALE_TOF_READINGS_FIELDS[k] :
                                    k \in DOMAIN STALE_TOF_READINGS_FIELDS} |-> -1]
    /\ stale_tof_readings = EmptyDict
    /\ logging_gap_errors = <<>>
    /\ ext_voltage_counter = 0
    /\ avg_ext_voltage = FloatZero

ProxRowOf(ts, left, right, volt) ==
    [f \in {"TimeInMS", "TofLeft", "TofRight", "ExtVoltage"} |->
        CASE f = "TimeInMS" -> ts
          [] f = "TofLeft" -> left
          [] f = "TofRight" -> right
          [] OTHER -> volt]

\* one iteration of "for i, row in enumerate(reader)"
ProxRowStep(row) ==
    LET i == Len(prox_rows)
        is_last == (i = num_rows - 1)
        cur_timestamp == row[PROX_READING_TIMESTAMP_FIELD]
        sample == cur_timestamp > base_reconnected_timestamp
        counter == IF sample THEN ext_voltage_counter + 1 ELSE ext_voltage_counter
        avg == IF sample
               THEN AddFloat(avg_ext_voltage, DivideByTen(row[EXTERNAL_VOLTAGE_FIELD]))
               ELSE avg_ext_voltage
        ec1 == IF sample /\ counter = EXT_VOLTAGE_SAMPLES
               THEN Put(error_count, "AVG_EXT_VOLTAGE_AFTER_RECONNECT", FloatInt(avg))
               ELSE error_count
        bus == BusErrorStep([start |-> i2c_bus_error_start_time,
                             last |-> last_i2c_bus_error,
                             errors |-> i2c_bus_errors,
                             count |-> 0],
                            CurTofErrorReading(row), cur_timestamp, is_last)
        ec2 == IF bus.count > 0 THEN Inc(ec1, "TOF_SENSOR_ERRORS") ELSE ec1
        st == StaleStep([start |-> tof_reading_start_time,
                         last |-> last_tof_reading,
                         stale |-> stale_tof_readings],
                        row, 1, cur_timestamp, is_last)
        logging_gap == cur_timestamp - prev_timestamp
        gap == PrevTimestampValid(prev_timestamp) /\ ExceedsLoggingGapThreshold(logging_gap)
    IN  /\ prox_rows' = Append(prox_rows, row)
        /\ ext_voltage_counter' = counter
        /\ avg_ext_voltage' = avg
        /\ i2c_bus_error_start_time' = bus.start
        /\ last_i2c_bus_error' = bus.last
        /\ i2c_bus_errors' = bus.errors
        /\ tof_reading_start_time' = st.start
        /\ last_tof_reading' = st.last
        /\ stale_tof_readings' = st.stale
        /\ logging_gap_errors' = IF gap THEN Append(logging_gap_errors, logging_gap)
                                 ELSE logging_gap_errors
        /\ error_count' = IF gap THEN Inc(ec2, "PROX_READINGS_LOGGING_GAP") ELSE ec2
        /\ prev_timestamp' = cur_timestamp

\* the timestamps a next row may carry: non-decreasing
NextTimestamps(first, deltas) ==
    IF prox_rows = <<>> THEN first
    ELSE {prox_rows[Len(prox_rows)]["TimeInMS"] + d : d \in deltas}

ERR1_RAW == 33029
ERR2_RAW == 33285
BusRows == {ProxRowOf(ts, l, r, 3000) :
                ts \in NextTimestamps({0, 10}, {0, 10}),
                l \in {5, ERR1_RAW, ERR2_RAW}, r \in {5, ERR2_RAW}}
StaleRows == {ProxRowOf(ts, l, r, 3000) :
                ts \in NextTimestamps({0, 10}, {500, 1100}),
                l \in {5, 6, 300}, r \in {5, 6}}
GapRows == {ProxRowOf(ts, 5, 5, v) :
                ts \in NextTimestamps({0, 10}, {10, 15, 20, 40}),
                v \in {3000, 3007}}

\* rows 100 ms apart that carry one of two voltages
VoltRows == {ProxRowOf(ts, 5, 5, v) :
                ts \in NextTimestamps({100}, {100}), v \in {3000, 3007}}

\* "if no_prox_reading_errors:" with the sensor pass switched on: the file
\* has up to max_rows rows and the locals of the pass are fresh
ProxEnter(max_rows) ==
    /\ pc = "pose_returned"
    /\ pc' = "prox"
    /\ num_rows' \in 0..max_rows
    /\ prox_rows' = <<>>
    /\ prev_timestamp' = -1
    /\ i2c_bus_error_start_time' = NoStartTime
    /\ last_i2c_bus_error' = None
    /\ i2c_bus_errors' = EmptyDict
    /\ tof_reading_start_time' = [f \in DOMAIN tof_reading_start_time |-> -1]
    /\ last_tof_reading' = [f \in DOMAIN last_tof_reading |-> -1]
    /\ stale_tof_readings' = EmptyDict
    /\ logging_gap_errors' = <<>>
    /\ ext_voltage_counter' = 0
    /\ avg_ext_voltage' = FloatZero
    /\ UNCHANGED <<error_count, batchVars, logVars, poseVars>>

ProxRow(Rows) ==
    /\ pc = "prox"
    /\ Len(prox_rows) < num_rows
    /\ \E row \in Rows : ProxRowStep(row)
    /\ UNCHANGED <<pc, num_rows, batchVars, logVars, poseVars>>

ProxReturn ==
    /\ pc = "prox"
    /\ Len(prox_rows) = num_rows
    /\ pc' = "prox_returned"
    /\ UNCHANGED <<error_count, batchVars, logVars, poseVars, proxVars>>

(***************************************************************************)
(* Text of the log file.  A line is the sequence of its space-separated    *)
(* words, a word is a sequence of characters or of unbroken pieces of      *)
(* text; a pattern is a sequence of words and occurs in a line when it is  *)
(* a contiguous part of it.                                                *)
(***************************************************************************)
W(s) == <<s>>
InvalidByte == "\\xff"
Digits == {"0", "1", "2", "3", "4", "5", "6", "7", "8", "9"}

\* bline.decode(): fails on an invalid byte
Decodable(bline) ==
    \A i \in DOMAIN bline : \A j \in DOMAIN bline[i] : bline[i][j] # InvalidByte

\* desc in line
Contains(line, desc) ==
    \E o \in 0..(Len(line) - Len(desc)) :
        \A j \in 1..Len(desc) : line[o + j] = desc[j]

\* line[line.rindex(desc) + len(desc):].strip()
AfterLast(line, desc) ==
    LET offs == {o \in 0..(Len(line) - Len(desc)) :
                    \A j \in 1..Len(desc) : line[o + j] = desc[j]}
        o == CHOOSE x \in offs : \A y \in offs : y <= x
    IN  SubSeq(line, o + Len(desc) + 1, Len(line))

\* float(token) and int(token) on an optionally signed run of decimal
\* digits; every other token raises ValueError
DigitVal(c) == CHOOSE n \in 0..9 : HexDigit[n + 1] = c
RECURSIVE DigitsVal(_)
DigitsVal(w) == IF w = <<>> THEN 0
                ELSE DigitsVal(SubSeq(w, 1, Len(w) - 1)) * 10 + DigitVal(w[Len(w)])
Unsigned(w) == IF w # <<>> /\ w[1] = "-" THEN Tail(w) ELSE w
IsNumber(w) == Unsigned(w) # <<>> /\ \A i \in DOMAIN Unsigned(w) : Unsigned(w)[i] \in Digits
NumberVal(w) == IF w # <<>> /\ w[1] = "-" THEN 0 - DigitsVal(Unsigned(w))
                ELSE DigitsVal(w)

\* token.replace('(', '').replace(')', '')
StripParens(w) == SelectSeq(w, LAMBDA c : c \notin {"(", ")"})

\* line.replace('=', ',')
ReplaceEquals(line) ==
    [i \in DOMAIN line |-> [j \in DOMAIN line[i] |->
        IF line[i][j] = "=" THEN "," ELSE line[i][j]]]

(***************************************************************************)
(* The rule set (LOG_MSGS_ERRORS of the configuration document), in the    *)
(* order of the document, and the lists that refer to its codes.           *)
(***************************************************************************)
LOG_MSGS_START_INDICATOR == <<W("Start"), W("MAPPING")>>
NEW_STATE_MARKER == <<W("new"), W("state"), W("=")>>

LOG_MSGS_ERRORS ==
    << <<"STARTED_ON_BASE", <<W("StartedOnBase")>> >>,
       <<"STARTED_OFF_BASE", <<W("StartedOffBase")>> >>,
       <<"STARTED_ON_BASE_UNDOCKING", <<W("UndockingFromBase")>> >>,
       <<"CLEANING_START", <<W("CleaningStart")>> >>,
       <<"SUSPENDED_CHARGING_START", <<W("SuspendedChargingStart")>> >>,
       <<"SUSPENDED_AUTONOMY_STATES_RESET", <<W("SuspendedStatesReset")>> >>,
       <<"SUSPENDED_DOCKING", <<W("SuspendedDocking")>> >>,
       <<"COMPLETE_CLEANING_RUN", <<W("CleaningComplete")>> >>,
       <<"CANCEL_CLEANING_RUN",
            << <<W("CancelByButton")>>, <<W("CancelByApp")>> >> >>,
       <<"TOTAL_CLEANING_TIME", <<W("TotalCleaningTime:")>> >>,
       <<"TOTAL_PAUSED_TIME", <<W("TotalPausedTime:")>> >>,
       <<"AUTONOMOUS_DOCK", <<W("AutonomousDock:")>> >>,
       <<"NAVIGATION_FALLING", <<W("NAVIGATION_FALLING")>> >>,
       <<"AVG_EXT_VOLTAGE_AFTER_RECONNECT", <<W("BaseReconnected")>> >>,
       <<"ERROR_RAISED", <<W("ErrorRaised:")>> >> >>

AUTONOMY_SUSPENDED_STATES == <<"SUSPENDED_CHARGING_START", "SUSPENDED_DOCKING">>

RuleCodes == {LOG_MSGS_ERRORS[k][1] : k \in DOMAIN LOG_MSGS_ERRORS}
ErrorDesc(code) ==
    LOG_MSGS_ERRORS[CHOOSE k \in DOMAIN LOG_MSGS_ERRORS : LOG_MSGS_ERRORS[k][1] = code][2]

(***************************************************************************)
(* search_for_log_msg_errors                                               *)
(***************************************************************************)
\* the locals of the scan: [ec, raised, started, nav, base, last, raise]
\* where raise is TRUE once an exception other than UnicodeDecodeError has
\* left the loop

\* variant: the composite rule counts a line once, however many of its
\* patterns occur in it
CountCancelDescsOncePerLine(ec, line, descs, k) ==
    IF \E j \in DOMAIN descs : Contains(line, descs[j])
    THEN Inc(ec, "CANCEL_CLEANING_RUN") ELSE ec

\* for desc in error_desc: if desc in line: error_count[error_code] += 1
RECURSIVE CountCancelDescs(_, _, _, _)
CountCancelDescs(ec, line, descs, k) ==
    IF k > Len(descs) THEN ec
    ELSE CountCancelDescs(IF Contains(line, descs[k])
                          THEN Inc(ec, "CANCEL_CLEANING_RUN") ELSE ec,
                          line, descs, k + 1)

\* for state in AUTONOMY_SUSPENDED_STATES: error_count[state] = 0
RECURSIVE ResetSuspendedStates(_, _)
ResetSuspendedStates(ec, k) ==
    IF k > Len(AUTONOMY_SUSPENDED_STATES) THEN ec
    ELSE ResetSuspendedStates(Put(ec, AUTONOMY_SUSPENDED_STATES[k], 0), k + 1)

LastToken(line) == line[Len(line)]
TimestampToken(line) == StripParens(line[5])

\* variant: a reported cleaning or paused time is added to the stored one
DispatchAccumulating(s, line, error_code) ==
    CASE error_code = "SUSPENDED_AUTONOMY_STATES_RESET" ->
            [s EXCEPT !.ec = ResetSuspendedStates(s.ec, 1)]
      [] error_code = "ERROR_RAISED" ->
            [s EXCEPT !.raised = Inc(s.raised, AfterLast(line, ErrorDesc(error_code)))]
      [] error_code = "TOTAL_CLEANING_TIME" ->
            IF IsNumber(LastToken(line))
            THEN [s EXCEPT !.ec = Put(s.ec, error_code,
                                      s.ec[error_code] - 1 + NumberVal(LastToken(line))),
                           !.started = TRUE]
            ELSE [s EXCEPT !.raise = TRUE]
      [] error_code = "AUTONOMOUS_DOCK" ->
            [s EXCEPT !.ec = Put(s.ec, error_code,
                                 IF LastToken(line) = W("true") THEN 1 ELSE 0)]
      [] error_code = "TOTAL_PAUSED_TIME" ->
            IF IsNumber(LastToken(line))
            THEN [s EXCEPT !.ec = Put(s.ec, error_code,
                                      s.ec[error_code] - 1 + NumberVal(LastToken(line)))]
            ELSE [s EXCEPT !.raise = TRUE]
      [] error_code = "NAVIGATION_FALLING" ->
            IF Len(line) >= 5 /\ IsNumber(TimestampToken(line))
            THEN [s EXCEPT !.nav = Append(s.nav, NumberVal(TimestampToken(line)))]
            ELSE [s EXCEPT !.raise = TRUE]
      [] error_code = "AVG_EXT_VOLTAGE_AFTER_RECONNECT" ->
            IF Len(line) >= 5 /\ IsNumber(TimestampToken(line))
            THEN [s EXCEPT !.base = NumberVal(TimestampToken(line))]
            ELSE [s EXCEPT !.raise = TRUE]
      [] OTHER -> s

\* the branch taken once error_desc was found in the line and the code's
\* counter was incremented
Dispatch(s, line, error_code) ==
    CASE error_code = "SUSPENDED_AUTONOMY_STATES_RESET" ->
            [s EXCEPT !.ec = ResetSuspendedStates(s.ec, 1)]
      [] error_code = "ERROR_RAISED" ->
            [s EXCEPT !.raised = Inc(s.raised, AfterLast(line, ErrorDesc(error_code)))]
      [] error_code = "TOTAL_CLEANING_TIME" ->
            IF IsNumber(LastToken(line))
            THEN [s EXCEPT !.ec = Put(s.ec, error_code, NumberVal(LastToken(line))),
                           !.started = TRUE]
            ELSE [s EXCEPT !.raise = TRUE]
      [] error_code = "AUTONOMOUS_DOCK" ->
            [s EXCEPT !.ec = Put(s.ec, error_code,
                                 IF LastToken(line) = W("true") THEN 1 ELSE 0)]
      [] error_code = "TOTAL_PAUSED_TIME" ->
            IF IsNumber(LastToken(line))
            THEN [s EXCEPT !.ec = Put(s.ec, error_code, NumberVal(LastToken(line)))]
            ELSE [s EXCEPT !.raise = TRUE]
      [] error_code = "NAVIGATION_FALLING" ->
            IF Len(line) >= 5 /\ IsNumber(TimestampToken(line))
            THEN [s EXCEPT !.nav = Append(s.nav, NumberVal(TimestampToken(line)))]
            ELSE [s EXCEPT !.raise = TRUE]
      [] error_code = "AVG_EXT_VOLTAGE_AFTER_RECONNECT" ->
            IF Len(line) >= 5 /\ IsNumber(TimestampToken(line))
            THEN [s EXCEPT !.base = NumberVal(TimestampToken(line))]
            ELSE [s EXCEPT !.raise = TRUE]
      [] OTHER -> s

\* variant: a match stores 1 in the counter instead of adding 1 to it
ApplyRuleStoreOne(s, line, error_code) ==
    LET s1 == IF Contains(line, NEW_STATE_MARKER)
              THEN [s EXCEPT !.last = ReplaceEquals(line)] ELSE s
    IN  IF error_code = "CANCEL_CLEANING_RUN"
        THEN [s1 EXCEPT !.ec = CountCancelDescs(s1.ec, line, ErrorDesc(error_code), 1)]
        ELSE IF Contains(line, ErrorDesc(error_code))
             THEN Dispatch([s1 EXCEPT !.ec = Put(s1.ec, error_code, 1)], line, error_code)
             ELSE s1

\* variant: the reconnect rule records its timestamp without counting the line
ApplyRuleNotCountingReconnect(s, line, error_code) ==
    LET s1 == IF Contains(line, NEW_STATE_MARKER)
              THEN [s EXCEPT !.last = ReplaceEquals(line)] ELSE s
    IN  IF error_code = "CANCEL_CLEANING_RUN"
        THEN [s1 EXCEPT !.ec = CountCancelDescs(s1.ec, line, ErrorDesc(error_code), 1)]
        ELSE IF Contains(line, ErrorDesc(error_code))
             THEN Dispatch(IF error_code = "AVG_EXT_VOLTAGE_AFTER_RECONNECT" THEN s1
                           ELSE [s1 EXCEPT !.ec = Inc(s1.ec, error_code)],
                           line, error_code)
             ELSE s1

\* one iteration of "for error_code, (error_desc, _) in LOG_MSGS_ERRORS"
ApplyRule(s, line, error_code) ==
    LET s1 == IF Contains(line, NEW_STATE_MARKER)
              THEN [s EXCEPT !.last = ReplaceEquals(line)] ELSE s
    IN  IF error_code = "CANCEL_CLEANING_RUN"
        THEN [s1 EXCEPT !.ec = CountCancelDescs(s1.ec, line, ErrorDesc(error_code), 1)]
        ELSE IF Contains(line, ErrorDesc(error_code))
             THEN Dispatch([s1 EXCEPT !.ec = Inc(s1.ec, error_code)], line, error_code)
             ELSE s1

RECURSIVE ApplyRules(_, _, _)
ApplyRules(s, line, k) ==
    IF k > Len(LOG_MSGS_ERRORS) \/ s.raise THEN s
    ELSE ApplyRules(ApplyRule(s, line, LOG_MSGS_ERRORS[k][1]), line, k + 1)

\* variant: the rules are applied to a line whether it decodes or not
ScanLineWithoutDecoding(s, bline) ==
    ApplyRules(IF Contains(bline, LOG_MSGS_START_INDICATOR)
               THEN [s EXCEPT !.started = TRUE] ELSE s,
               bline, 1)

\* the body of "for bline in fp": a line that does not decode is reported
\* and skipped
ScanLine(s, bline) ==
    IF ~Decodable(bline) THEN s
    ELSE ApplyRules(IF Contains(bline, LOG_MSGS_START_INDICATOR)
                    THEN [s EXCEPT !.started = TRUE] ELSE s,
                    bline, 1)

\* variant: a completed run passes even if it was cancelled
RunStatusIgnoringCancel(started, ec) ==
    IF ~started THEN "INVALID"
    ELSE IF Has(ec, "COMPLETE_CLEANING_RUN") THEN "PASS" ELSE "FAIL"

\* the status written after the scan
RunStatus(started, ec) ==
    IF ~started THEN "INVALID"
    ELSE IF Has(ec, "COMPLETE_CLEANING_RUN") /\ ~Has(ec, "CANCEL_CLEANING_RUN")
         THEN "PASS"
         ELSE "FAIL"

\* variant: the pass/fail decision is not nested under the else of the
\* validity test, so an invalid run is marked FAIL as well
FinalizeErrorCountPassFailAlways(started, ec) ==
    LET ec0 == IF started THEN ec ELSE Put(ec, "INVALID", 1)
        ec1 == Put(ec0, IF Has(ec, "COMPLETE_CLEANING_RUN") /\ ~Has(ec, "CANCEL_CLEANING_RUN")
                        THEN "PASS" ELSE "FAIL", 1)
        total_paused_time == IF Has(ec1, "TOTAL_PAUSED_TIME")
                             THEN ec1["TOTAL_PAUSED_TIME"] ELSE 0
        ec2 == Pop(ec1, "TOTAL_PAUSED_TIME")
    IN  Put(ec2, "TOTAL_CLEANING_TIME", Get(ec2, "TOTAL_CLEANING_TIME") - total_paused_time)

\* variant: a negative net cleaning time is replaced by 0
FinalizeErrorCountClamped(started, ec) ==
    LET ec1 == Put(ec, RunStatus(started, ec), 1)
        total_paused_time == IF Has(ec1, "TOTAL_PAUSED_TIME")
                             THEN ec1["TOTAL_PAUSED_TIME"] ELSE 0
        ec2 == Pop(ec1, "TOTAL_PAUSED_TIME")
        net == Get(ec2, "TOTAL_CLEANING_TIME") - total_paused_time
    IN  Put(ec2, "TOTAL_CLEANING_TIME", IF net < 0 THEN 0 ELSE net)

\* variant: nothing is written for a log file without cleaning activity
FinalizeErrorCountOnlyIfStarted(started, ec) ==
    IF ~started THEN ec
    ELSE LET ec1 == Put(ec, RunStatus(started, ec), 1)
             total_paused_time == IF Has(ec1, "TOTAL_PAUSED_TIME")
                                  THEN ec1["TOTAL_PAUSED_TIME"] ELSE 0
             ec2 == Pop(ec1, "TOTAL_PAUSED_TIME")
         IN  Put(ec2, "TOTAL_CLEANING_TIME",
                 Get(ec2, "TOTAL_CLEANING_TIME") - total_paused_time)

\* the statements after the scan: the status key, then the paused time is
\* popped and subtracted from the cleaning time
FinalizeErrorCount(started, ec) ==
    LET ec1 == Put(ec, RunStatus(started, ec), 1)
        total_paused_time == IF Has(ec1, "TOTAL_PAUSED_TIME")
                             THEN ec1["TOTAL_PAUSED_TIME"] ELSE 0
        ec2 == Pop(ec1, "TOTAL_PAUSED_TIME")
    IN  Put(ec2, "TOTAL_CLEANING_TIME", Get(ec2, "TOTAL_CLEANING_TIME") - total_paused_time)

DEFAULT_STATE == <<W("DEFAULT_STATE")>>

LogLocalsInit ==
    /\ log_lines = <<>>
    /\ raised_errors = EmptyDict
    /\ cleaning_started = FALSE
    /\ nav_falling_timestamps = <<>>
    /\ base_reconnected_timestamp = 0
    /\ last_robot_state_transition = DEFAULT_STATE

\* the lines a log file is made of
LinePrefix == <<W("Jan"), W("01"), W("12:00:00"), W("robot")>>
LogLine(ts, body) == LinePrefix \o <<ts>> \o body
Ts100 == <<"(", "1", "0", "0", ")">>
LineStart == LogLine(Ts100, <<W("Start"), W("MAPPING")>>)
LineComplete == LogLine(Ts100, <<W("CleaningComplete")>>)
LineCancelButton == LogLine(Ts100, <<W("CancelByButton")>>)
LineCancelApp == LogLine(Ts100, <<W("CancelByApp")>>)
LineCancelBoth == LogLine(Ts100, <<W("CancelByButton"), W("CancelByApp")>>)
LineReset == LogLine(Ts100, <<W("SuspendedStatesReset")>>)
LineSuspendedCharging == LogLine(Ts100, <<W("SuspendedChargingStart")>>)
LineCleaningTime == LogLine(Ts100, <<W("TotalCleaningTime:"), <<"1", "2", "0">> >>)
LineCleaningTimeBad == LogLine(Ts100, <<W("TotalCleaningTime:"), W("n/a")>>)
LinePausedTime == LogLine(Ts100, <<W("TotalPausedTime:"), <<"3", "0">> >>)
LinePausedTimeBad == LogLine(Ts100, <<W("TotalPausedTime:"), W("n/a")>>)
LineFallingBad == LogLine(W("(?)"), <<W("NAVIGATION_FALLING")>>)
LineReconnectBad == <<W("BaseReconnected")>>
LineUndecodable == LogLine(Ts100, <<W("CleaningComplete"), <<InvalidByte>>, W("CancelByApp")>>)
LineUndocking == LogLine(Ts100, <<W("UndockingFromBase")>>)
LineCleaningStart == LogLine(Ts100, <<W("CleaningStart")>>)

LogLines == {LineStart, LineComplete, LineCancelButton, LineCancelApp,
             LineCancelBoth, LineReset, LineSuspendedCharging,
             LineCleaningTime, LineCleaningTimeBad, LinePausedTime,
             LineUndecodable}
BatchLines == {LineStart, LineComplete, LineCancelApp, LineCleaningTime,
               LineCleaningTimeBad, LinePausedTimeBad, LineFallingBad,
               LineReconnectBad}
\* the lines that tell where the run started
StartLines == {LogLine(Ts100, <<W("StartedOnBase")>>),
               LogLine(Ts100, <<W("StartedOffBase")>>),
               LineUndocking, LineCleaningStart}
\* the lines that match the reset rule, a dependent counter's rule, both,
\* or a rule outside the reset rule's list
ResetLines ==
    {LineReset, LineSuspendedCharging, LineComplete,
     LogLine(Ts100, <<W("SuspendedDocking")>>),
     LogLine(Ts100, <<W("SuspendedChargingStart"), W("SuspendedStatesReset")>>),
     LogLine(Ts100, <<W("SuspendedStatesReset"), W("SuspendedDocking")>>)}
\* the lines that carry values, timestamps, raised errors and state
\* transitions, and a line that carries them all and does not decode
ScanLines ==
    {LineCleaningTime, LinePausedTime,
     LogLine(Ts100, <<W("TotalCleaningTime:"), <<"2", "0">> >>),
     LogLine(Ts100, <<W("AutonomousDock:"), W("true")>>),
     LogLine(Ts100, <<W("AutonomousDock:"), W("false")>>),
     LogLine(Ts100, <<W("ErrorRaised:"), W("E1")>>),
     LogLine(Ts100, <<W("new"), W("state"), W("="), W("CLEANING")>>),
     LogLine(Ts100, <<W("NAVIGATION_FALLING")>>),
     LogLine(<<"(", "2", "0", "0", ")">>, <<W("BaseReconnected")>>),
     LogLine(<<"(", "3", "0", "0", ")">>,
             <<W("new"), W("state"), W("="), <<InvalidByte>>, W("ErrorRaised:"),
               W("NAVIGATION_FALLING"), W("BaseReconnected"), W("Start"),
               W("MAPPING"), W("AutonomousDock:"), W("TotalPausedTime:"),
               W("TotalCleaningTime:"), <<"7", "0">> >>)}

\* the log files of a batch whose autonomy statistics are taken, and the
\* lines that can follow the lines read so far in one of them
StatsFiles ==
    {<<LineCleaningStart>>,
     <<LogLine(Ts100, <<W("CleaningStart"), W("CleaningComplete")>>)>>,
     <<LineComplete>>,
     <<LineReset>>,
     <<LogLine(Ts100, <<W("StartedOnBase"), W("CleaningStart"),
                        W("SuspendedChargingStart")>>)>>,
     <<LineSuspendedCharging, LineReset>>,
     <<LineUndocking, LineCleaningStart, LineComplete>>}
\* a log file of a run that passes; cut short it is a run that fails or an
\* invalid one
StatusFiles == {<<LineStart, LineComplete>>}
\* a log file with two lines that match the reconnect rule
VoltFiles ==
    {<<LogLine(Ts100, <<W("BaseReconnected")>>),
       LogLine(Ts100, <<W("BaseReconnected")>>)>>}
NextLines(Files) ==
    {f[Len(log_lines) + 1] : f \in {g \in Files :
        /\ Len(g) > Len(log_lines)
        /\ SubSeq(g, 1, Len(log_lines)) = log_lines}}

\* a token the code parses as a number that is not one
MalformedToken(bline) ==
    /\ Decodable(bline)
    /\ \/ /\ \/ Contains(bline, ErrorDesc("TOTAL_CLEANING_TIME"))
             \/ Contains(bline, ErrorDesc("TOTAL_PAUSED_TIME"))
          /\ ~IsNumber(LastToken(bline))
       \/ /\ \/ Contains(bline, ErrorDesc("NAVIGATION_FALLING"))
             \/ Contains(bline, ErrorDesc("AVG_EXT_VOLTAGE_AFTER_RECONNECT"))
          /\ (Len(bline) < 5 \/ ~IsNumber(TimestampToken(bline)))

\* one iteration of "for bline in fp"; an exception that the loop does not
\* catch leaves search_for_log_msg_errors and process_bb_files
ReadLine(Lines) ==
    /\ pc = "log"
    /\ Len(log_lines) < MaxLines
    /\ \E bline \in Lines :
        LET s == ScanLine([ec |-> error_count, raised |-> raised_errors,
                           started |-> cleaning_started,
                           nav |-> nav_falling_timestamps,
                           base |-> base_reconnected_timestamp,
                           last |-> last_robot_state_transition,
                           raise |-> FALSE], bline)
        IN  /\ log_lines' = Append(log_lines, bline)
            /\ error_count' = s.ec
            /\ raised_errors' = s.raised
            /\ cleaning_started' = s.started
            /\ nav_falling_timestamps' = s.nav
            /\ base_reconnected_timestamp' = s.base
            /\ last_robot_state_transition' = s.last
            /\ pc' = IF s.raise THEN "aborted" ELSE "log"
    /\ UNCHANGED <<batchVars, poseVars, proxVars>>

\* end of the log file: the status and the net cleaning time are written,
\* the function returns and search_for_stationary_errors is entered
LogReturn ==
    /\ pc = "log"
    /\ error_count' = FinalizeErrorCount(cleaning_started, error_count)
    /\ pc' = "pose"
    /\ cnt' = 0
    /\ last_pose' = OriginPose
    /\ stationary_count' = 0
    /\ stationary_errors' = <<>>
    /\ pose_seen' = {}
    /\ cur_pose' = <<>>
    /\ UNCHANGED <<batchVars, logVars, proxVars>>

(***************************************************************************)
(* process_bb_files: the loop over the log files of a batch.               *)
(***************************************************************************)
\* SUMMARY_CSV_HEADER and AUTONOMY_CSV_HEADER (JSON_INPUT.parse_JSON); a row
\* is indexed by the header names, which the *_ERROR_TO_COL_IDX maps turn
\* into column numbers
SUMMARY_CSV_HEADER ==
    {"LOG_NAME", "BUILD_VERSION", "RUN_STATUS"} \cup RuleCodes
        \cup {"EXTERNAL_VOLTAGE", "TOF_SENSOR_ERRORS", "STALE_TOF_READINGS",
              "PROX_READINGS_LOGGING_GAP", "ROBOT_STATIONARY_ERROR"}
AUTONOMY_CSV_HEADER ==
    {"LOG_NAME", "BUILD_VERSION", "CLEANING_START", "SUSPENDED_CHARGING_START",
     "SUSPENDED_DOCKING", "COMPLETE_CLEANING_RUN", "CLEANING_START (sum)",
     "UNDOCKING (sum)", "ACTIVE_CLEANING_SESSION (sum)", "DOCKING (sum)",
     "DOCKING_SUCCESSFUL (sum)"}
AUTONOMY_COLUMN_ADDITIONS ==
    << <<"CLEANING_START (sum)", <<"CLEANING_START", "SUSPENDED_CHARGING_START">> >> >>
AUTONOMY_TRANSITIONS ==
    << <<"CLEANING_TO_COMPLETE", "CLEANING_START (sum)", "COMPLETE_CLEANING_RUN">> >>

\* the columns the percentage plot reads (plot_events)
PLOT_EVENTS ==
    <<"CLEANING_START (sum)", "UNDOCKING (sum)", "ACTIVE_CLEANING_SESSION (sum)",
      "DOCKING (sum)", "DOCKING_SUCCESSFUL (sum)">>

StatusKeys == {"PASS", "FAIL", "INVALID"}
Builds == {"1.2.0", "1.3.0"}

\* variant: the undocking indicator is consulted before the explicit
\* off-base flag
StartedWhereUndockingFirst(ec) ==
    LET ec1 == Touch(ec, "STARTED_ON_BASE")
        ec2 == Touch(ec1, "STARTED_ON_BASE_UNDOCKING")
        ec3 == Touch(ec2, "STARTED_OFF_BASE")
    IN  IF ec1["STARTED_ON_BASE"] >= 1 THEN [where |-> "ON_BASE", ec |-> ec1]
        ELSE IF ec2["STARTED_ON_BASE_UNDOCKING"] >= 1 THEN [where |-> "ON_BASE", ec |-> ec2]
        ELSE [where |-> "OFF_BASE", ec |-> ec3]

\* the start location; every counter that is looked up is left in
\* error_count by the defaultdict.  Result: [where, ec]
StartedWhere(ec) ==
    LET ec1 == Touch(ec, "STARTED_ON_BASE")
        ec2 == Touch(ec1, "STARTED_OFF_BASE")
        ec3 == Touch(ec2, "STARTED_ON_BASE_UNDOCKING")
    IN  IF ec1["STARTED_ON_BASE"] >= 1 THEN [where |-> "ON_BASE", ec |-> ec1]
        ELSE IF ec2["STARTED_OFF_BASE"] >= 1 THEN [where |-> "OFF_BASE", ec |-> ec2]
        ELSE IF ec3["STARTED_ON_BASE_UNDOCKING"] >= 1 THEN [where |-> "ON_BASE", ec |-> ec3]
        ELSE [where |-> "OFF_BASE", ec |-> ec3]

\* the RUN_STATUS column after the loop over error_count.items()
RunStatusColumn(ec, before) ==
    IF StatusKeys \cap DOMAIN ec = {} THEN before
    ELSE CHOOSE k \in StatusKeys \cap DOMAIN ec : TRUE

\* sum([error_count[col] for col in cols_to_add]); Result: [sum, ec]
RECURSIVE SumColumns(_, _, _, _)
SumColumns(ec, cols, k, acc) ==
    IF k > Len(cols) THEN [sum |-> acc, ec |-> ec]
    ELSE SumColumns(Touch(ec, cols[k]), cols, k + 1, acc + Get(ec, cols[k]))

\* variant: every run triggers every composite column
AddColumnsTriggeringAlways(s, k) ==
    [ec |-> SumColumns(s.ec, AUTONOMY_COLUMN_ADDITIONS[1][2], 1, 0).ec,
     row |-> [h \in DOMAIN s.row |->
                IF \E j \in DOMAIN AUTONOMY_COLUMN_ADDITIONS :
                        AUTONOMY_COLUMN_ADDITIONS[j][1] = h
                THEN SumColumns(s.ec,
                        AUTONOMY_COLUMN_ADDITIONS[
                            CHOOSE j \in DOMAIN AUTONOMY_COLUMN_ADDITIONS :
                                AUTONOMY_COLUMN_ADDITIONS[j][1] = h][2], 1, 0).sum
                ELSE s.row[h]],
     bucket |-> [e \in (DOMAIN s.bucket) \cup
                        {AUTONOMY_COLUMN_ADDITIONS[j][1] :
                            j \in DOMAIN AUTONOMY_COLUMN_ADDITIONS} |->
                    IF \E j \in DOMAIN AUTONOMY_COLUMN_ADDITIONS :
                            AUTONOMY_COLUMN_ADDITIONS[j][1] = e
                    THEN Get(s.bucket, e) + 1 ELSE s.bucket[e]]]

\* the loop over AUTONOMY_COLUMN_ADDITIONS; the state is [ec, row, bucket]
RECURSIVE AddColumns(_, _)
AddColumns(s, k) ==
    IF k > Len(AUTONOMY_COLUMN_ADDITIONS) THEN s
    ELSE LET addition_col == AUTONOMY_COLUMN_ADDITIONS[k][1]
             r == SumColumns(s.ec, AUTONOMY_COLUMN_ADDITIONS[k][2], 1, 0)
         IN  AddColumns([ec |-> r.ec,
                         row |-> [s.row EXCEPT ![addition_col] = r.sum],
                         bucket |-> IF r.sum >= 1 THEN Inc(s.bucket, addition_col)
                                    ELSE s.bucket],
                        k + 1)

\* variant: a transition is reported as failed whenever its start state
\* was reached
TransitionRowsWithoutEndTest(row, k, out) ==
    LET failed == SelectSeq(SubSeq(AUTONOMY_TRANSITIONS, k, Len(AUTONOMY_TRANSITIONS)),
                            LAMBDA t : row[t[2]] >= 1)
    IN  out \o [j \in DOMAIN failed |->
                    <<failed[j][1], row["LOG_NAME"], row["BUILD_VERSION"]>>]

\* the rows of the transitions csv that one run adds
RECURSIVE TransitionRows(_, _, _)
TransitionRows(row, k, out) ==
    IF k > Len(AUTONOMY_TRANSITIONS) THEN out
    ELSE TransitionRows(row, k + 1,
            IF /\ row[AUTONOMY_TRANSITIONS[k][2]] >= 1
               /\ row[AUTONOMY_TRANSITIONS[k][3]] = 0
            THEN Append(out, <<AUTONOMY_TRANSITIONS[k][1], row["LOG_NAME"],
                               row["BUILD_VERSION"]>>)
            ELSE out)

\* the codes whose pattern occurs in a decodable line of the log file
MatchedCodes ==
    {code \in RuleCodes :
        IF code = "CANCEL_CLEANING_RUN"
        THEN \E k \in DOMAIN ErrorDesc(code) :
                \E i \in DOMAIN log_lines :
                    Decodable(log_lines[i]) /\ Contains(log_lines[i], ErrorDesc(code)[k])
        ELSE \E i \in DOMAIN log_lines :
                Decodable(log_lines[i]) /\ Contains(log_lines[i], ErrorDesc(code))}

\* the place of a new (started_where, build) bucket in the iteration order
\* of the nested dictionaries: behind the buckets of its start location,
\* which stand where the location was first inserted
InsertBucket(order, key) ==
    IF \E i \in DOMAIN order : order[i] = key THEN order
    ELSE LET same == {i \in DOMAIN order : order[i][1] = key[1]}
         IN  IF same = {} THEN Append(order, key)
             ELSE LET m == CHOOSE x \in same : \A y \in same : y <= x
                  IN  SubSeq(order, 1, m) \o <<key>> \o SubSeq(order, m + 1, Len(order))

BatchInit ==
    /\ log_idx = 0
    /\ summary_row = EmptyDict
    /\ autonomy_row = EmptyDict
    /\ autonomy_statistics = EmptyDict
    /\ statistics_order = <<>>
    /\ overall_error_count = EmptyDict
    /\ autonomy_csv = <<>>
    /\ transitions_csv = <<>>
    /\ run_results = <<>>

\* variant: error_count is not replaced by a fresh dictionary
StartRunKeepingErrorCount(Bs) ==
    /\ pc = "start"
    /\ log_idx < nfiles
    /\ \E build \in Bs :
        /\ summary_row' = [h \in SUMMARY_CSV_HEADER |->
                CASE h = "LOG_NAME" -> log_idx + 1
                  [] h = "BUILD_VERSION" -> build
                  [] OTHER -> 0]
        /\ autonomy_row' = [h \in AUTONOMY_CSV_HEADER |->
                CASE h = "LOG_NAME" -> log_idx + 1
                  [] h = "BUILD_VERSION" -> build
                  [] OTHER -> 0]
    /\ log_lines' = <<>>
    /\ raised_errors' = EmptyDict
    /\ cleaning_started' = FALSE
    /\ nav_falling_timestamps' = <<>>
    /\ base_reconnected_timestamp' = 0
    /\ last_robot_state_transition' = DEFAULT_STATE
    /\ pc' = "log"
    /\ UNCHANGED <<error_count, nfiles, log_idx, autonomy_statistics, statistics_order,
                   overall_error_count, autonomy_csv, transitions_csv, run_results,
                   poseVars, proxVars>>

\* the head of one iteration of "for log in bb_files": fresh rows and a
\* fresh error_count, the build version, and the entry into
\* search_for_log_msg_errors (the simulator is taken to exit with 0)
StartRun(Bs) ==
    /\ pc = "start"
    /\ log_idx < nfiles
    /\ \E build \in Bs :
        /\ summary_row' = [h \in SUMMARY_CSV_HEADER |->
                CASE h = "LOG_NAME" -> log_idx + 1
                  [] h = "BUILD_VERSION" -> build
                  [] OTHER -> 0]
        /\ autonomy_row' = [h \in AUTONOMY_CSV_HEADER |->
                CASE h = "LOG_NAME" -> log_idx + 1
                  [] h = "BUILD_VERSION" -> build
                  [] OTHER -> 0]
    /\ error_count' = EmptyDict
    /\ log_lines' = <<>>
    /\ raised_errors' = EmptyDict
    /\ cleaning_started' = FALSE
    /\ nav_falling_timestamps' = <<>>
    /\ base_reconnected_timestamp' = 0
    /\ last_robot_state_transition' = DEFAULT_STATE
    /\ pc' = "log"
    /\ UNCHANGED <<nfiles, log_idx, autonomy_statistics, statistics_order,
                   overall_error_count, autonomy_csv, transitions_csv, run_results,
                   poseVars, proxVars>>

\* the tail of the iteration, after the passes have returned: the start
\* location, the rows of the run, the cross-run counts and the transition
\* failures (save_summary and autonomy_summary set)
Aggregate ==
    /\ pc \in {"pose_returned", "prox_returned"}
    /\ log_idx < nfiles
    /\ LET sw == StartedWhere(error_count)
           ec == sw.ec
           key == <<sw.where, summary_row["BUILD_VERSION"]>>
           codes == (DOMAIN ec) \ StatusKeys
           tracked == codes \cap AUTONOMY_CSV_HEADER
           bucket0 == IF key \in DOMAIN autonomy_statistics
                      THEN autonomy_statistics[key] ELSE EmptyDict
           bucket1 == [c \in (DOMAIN bucket0) \cup tracked |->
                          Get(bucket0, c) + (IF c \in tracked THEN 1 ELSE 0)]
           bucket2 == IF Has(ec, "CLEANING_START") \/ Has(ec, "SUSPENDED_CHARGING_START")
                      THEN Inc(bucket1, "count") ELSE bucket1
           row1 == [h \in AUTONOMY_CSV_HEADER |->
                        IF h \in tracked THEN ec[h] ELSE autonomy_row[h]]
           added == AddColumns([ec |-> ec, row |-> row1, bucket |-> bucket2], 1)
       IN  /\ IF DOMAIN ec = {}
              THEN /\ overall_error_count' = Inc(overall_error_count, "NO_CLEANING_RUN")
                   /\ summary_row' = [summary_row EXCEPT !["RUN_STATUS"] = "INVALID"]
                   /\ autonomy_csv' = Append(autonomy_csv, autonomy_row)
                   /\ transitions_csv' = TransitionRows(autonomy_row, 1, transitions_csv)
                   /\ UNCHANGED <<error_count, autonomy_row, autonomy_statistics,
                                  statistics_order>>
              ELSE /\ summary_row' = [h \in SUMMARY_CSV_HEADER |->
                           IF h = "RUN_STATUS"
                           THEN RunStatusColumn(ec, summary_row["RUN_STATUS"])
                           ELSE IF h \in codes THEN ec[h] ELSE summary_row[h]]
                   /\ overall_error_count' =
                           [c \in (DOMAIN overall_error_count) \cup DOMAIN ec |->
                               Get(overall_error_count, c) +
                               (IF c \notin DOMAIN ec THEN 0
                                ELSE IF c = "TOTAL_CLEANING_TIME" THEN ec[c] ELSE 1)]
                   /\ error_count' = added.ec
                   /\ autonomy_row' = added.row
                   /\ autonomy_statistics' =
                           IF added.bucket = EmptyDict /\ key \notin DOMAIN autonomy_statistics
                           THEN autonomy_statistics
                           ELSE Put(autonomy_statistics, key, added.bucket)
                   /\ statistics_order' =
                           IF added.bucket = EmptyDict /\ key \notin DOMAIN autonomy_statistics
                           THEN statistics_order
                           ELSE InsertBucket(statistics_order, key)
                   /\ autonomy_csv' = Append(autonomy_csv, added.row)
                   /\ transitions_csv' = TransitionRows(added.row, 1, transitions_csv)
           /\ run_results' = Append(run_results,
                    [started_where |-> sw.where,
                     build |-> summary_row["BUILD_VERSION"],
                     error_count |-> error_count,
                     matched |-> MatchedCodes])
    /\ log_idx' = log_idx + 1
    /\ pc' = "start"
    /\ UNCHANGED <<nfiles, logVars, poseVars, proxVars>>

\* variant: the percentage is the plain quotient, not scaled by 100
PercentageUnscaled(build_error_count, count) == <<build_error_count, count>>

\* (build_error_count / count) * 100 as the fraction <<numerator, denominator>>
Percentage(build_error_count, count) == <<build_error_count * 100, count>>

\* one iteration of "for build in autonomy_statistics[started_where]": the
\* count row and the percentage row of a bucket, then the lookups of the plot;
\* the state is [csv, stats, raise], where raise is TRUE once the division
\* has raised ZeroDivisionError
SummarizeBucket(s, key) ==
    LET bucket == s.stats[key]
        events == (DOMAIN bucket) \ {"count"}
        header_row == [h \in AUTONOMY_CSV_HEADER |->
                CASE h = "LOG_NAME" -> <<"All logs", key[1]>>
                  [] h = "BUILD_VERSION" -> key[2]
                  [] h \in events -> bucket[h]
                  [] OTHER -> 0]
        percentage_row == [h \in AUTONOMY_CSV_HEADER |->
                CASE h = "LOG_NAME" -> <<"All logs %", key[1]>>
                  [] h = "BUILD_VERSION" -> key[2]
                  [] h \in events -> Percentage(bucket[h], bucket["count"])
                  [] OTHER -> 0]
        RECURSIVE TouchAll(_, _)
        TouchAll(b, k) == IF k > Len(PLOT_EVENTS) THEN Touch(b, "count")
                          ELSE TouchAll(Touch(b, PLOT_EVENTS[k]), k + 1)
    IN  IF events # {} /\ Get(bucket, "count") = 0
        THEN [s EXCEPT !.stats = Put(s.stats, key, Touch(bucket, "count")),
                       !.raise = TRUE]
        ELSE [s EXCEPT !.csv = s.csv \o <<header_row, percentage_row>>,
                       !.stats = Put(s.stats, key, TouchAll(bucket, 1))]

RECURSIVE SummarizeBuckets(_, _)
SummarizeBuckets(s, k) ==
    IF k > Len(statistics_order) \/ s.raise THEN s
    ELSE SummarizeBuckets(SummarizeBucket(s, statistics_order[k]), k + 1)

\* after the last log file: the rows "All logs" and "All logs %" of every
\* bucket (autonomy_summary set); a division by a zero count leaves
\* process_bb_files with the rows written so far
Summarize ==
    /\ pc = "start"
    /\ log_idx = nfiles
    /\ LET s == SummarizeBuckets([csv |-> autonomy_csv, stats |-> autonomy_statistics,
                                  raise |-> FALSE], 1)
       IN  /\ autonomy_csv' = s.csv
           /\ autonomy_statistics' = s.stats
           /\ pc' = IF s.raise THEN "aborted" ELSE "summarized"
    /\ UNCHANGED <<error_count, nfiles, log_idx, summary_row, autonomy_row,
                   statistics_order, overall_error_count, transitions_csv,
                   run_results, logVars, poseVars, proxVars>>

(***************************************************************************)
(* Specifications of the single passes.                                    *)
(***************************************************************************)
InitPose ==
    /\ pc = "pose"
    /\ error_count = EmptyDict
    /\ nfiles = 1
    /\ BatchInit
    /\ LogLocalsInit
    /\ PoseLocalsInit
    /\ num_rows = 0
    /\ ProxLocalsInit

NextPose == PoseRow \/ PoseReturn
SpecPose == InitPose /\ [][NextPose]_vars

InitProx ==
    /\ pc = "prox"
    /\ error_count = EmptyDict
    /\ nfiles = 1
    /\ BatchInit
    /\ LogLocalsInit
    /\ PoseLocalsInit
    /\ num_rows \in 0..MaxRows
    /\ ProxLocalsInit

NextBus == ProxRow(BusRows) \/ ProxReturn
SpecBus == InitProx /\ [][NextBus]_vars

NextStale == ProxRow(StaleRows) \/ ProxReturn
SpecStale == InitProx /\ [][NextStale]_vars

NextGap == ProxRow(GapRows) \/ ProxReturn
SpecGap == InitProx /\ [][NextGap]_vars

(***************************************************************************)
(* Specifications of process_bb_files: one log file with the full set of   *)
(* lines, and a batch of log files with a smaller one.  The pose file is   *)
(* empty and the sensor pass is switched off (no_prox_reading_errors).     *)
(***************************************************************************)
InitLog ==
    /\ pc = "start"
    /\ error_count = EmptyDict
    /\ nfiles = 1
    /\ BatchInit
    /\ LogLocalsInit
    /\ PoseLocalsInit
    /\ num_rows = 0
    /\ ProxLocalsInit

NextLog ==
    \/ StartRun({"1.2.0"})
    \/ ReadLine(LogLines)
    \/ LogReturn
    \/ PoseReturn
    \/ Aggregate
    \/ Summarize
Spec == InitLog /\ [][NextLog]_vars

InitBatch ==
    /\ pc = "start"
    /\ error_count = EmptyDict
    /\ nfiles \in 1..MaxRuns
    /\ BatchInit
    /\ LogLocalsInit
    /\ PoseLocalsInit
    /\ num_rows = 0
    /\ ProxLocalsInit

NextBatch ==
    \/ StartRun(Builds)
    \/ ReadLine(BatchLines)
    \/ LogReturn
    \/ PoseReturn
    \/ Aggregate
    \/ Summarize
SpecBatch == InitBatch /\ [][NextBatch]_vars

\* one log file made of the lines that tell where the run started
NextStart ==
    \/ StartRun({"1.2.0"})
    \/ ReadLine(StartLines)
    \/ LogReturn
    \/ PoseReturn
    \/ Aggregate
    \/ Summarize
SpecStart == InitLog /\ [][NextStart]_vars

\* one log file made of the lines that carry values, timestamps, raised
\* errors and state transitions
NextScan ==
    \/ StartRun({"1.2.0"})
    \/ ReadLine(ScanLines)
    \/ LogReturn
    \/ PoseReturn
    \/ Aggregate
    \/ Summarize
SpecScan == InitLog /\ [][NextScan]_vars

\* a batch of log files that are StatsFiles or cut short
NextStats ==
    \/ StartRun(Builds)
    \/ ReadLine(NextLines(StatsFiles))
    \/ LogReturn
    \/ PoseReturn
    \/ Aggregate
    \/ Summarize
SpecStats == InitBatch /\ [][NextStats]_vars

\* one log file made of the lines around the reset rule
NextReset ==
    \/ StartRun({"1.2.0"})
    \/ ReadLine(ResetLines)
    \/ LogReturn
    \/ PoseReturn
    \/ Aggregate
    \/ Summarize
SpecReset == InitLog /\ [][NextReset]_vars

\* one log file with lines that match the reconnect rule, and a sensor file
\* long enough for the voltage averager
NextVolt ==
    \/ StartRun({"1.2.0"})
    \/ ReadLine(NextLines(VoltFiles))
    \/ LogReturn
    \/ PoseReturn
    \/ ProxEnter(MaxVoltRows)
    \/ ProxRow(VoltRows)
    \/ ProxReturn
    \/ Aggregate
    \/ Summarize
SpecVolt == InitLog /\ [][NextVolt]_vars

\* a batch of log files that are StatusFiles or cut short
NextStatus ==
    \/ StartRun(Builds)
    \/ ReadLine(NextLines(StatusFiles))
    \/ LogReturn
    \/ PoseReturn
    \/ Aggregate
    \/ Summarize
SpecStatus == InitBatch /\ [][NextStatus]_vars

(***************************************************************************)
(* Properties of the log-line pass and of the run's status.                *)
(***************************************************************************)
\* search_for_log_msg_errors has returned for the current log file
LogFinished == pc \in {"pose", "pose_returned"} \/ (pc = "start" /\ log_idx > 0)
\* the tail of the loop body has run for the current log file
RunAggregated == pc = "start" /\ log_idx > 0

DecodedLines == {i \in DOMAIN log_lines : Decodable(log_lines[i])}
MatchingLines(desc) == {i \in DecodedLines : Contains(log_lines[i], desc)}
ActivityObserved ==
    \/ MatchingLines(LOG_MSGS_START_INDICATOR) # {}
    \/ MatchingLines(ErrorDesc("TOTAL_CLEANING_TIME")) # {}
CompletedNotCancelled ==
    Has(error_count, "COMPLETE_CLEANING_RUN") /\ ~Has(error_count, "CANCEL_CLEANING_RUN")

\* C1: once the line stream is finished the status is INVALID exactly when no
\* line set the activity flag; otherwise PASS exactly when the completed code
\* is present in ErrorCount and the cancelled code is absent, else FAIL.
C1_StatusFromActivityAndCodes ==
    LogFinished =>
        /\ Has(error_count, "INVALID") <=> ~ActivityObserved
        /\ Has(error_count, "PASS") <=> (ActivityObserved /\ CompletedNotCancelled)
        /\ Has(error_count, "FAIL") <=> (ActivityObserved /\ ~CompletedNotCancelled)
C1_Witness ==
    /\ LogFinished
    /\ Has(error_count, "PASS")
    /\ MatchingLines(ErrorDesc("COMPLETE_CLEANING_RUN")) # {}
    /\ MatchingLines(LOG_MSGS_START_INDICATOR) # {}

\* C2: a finalized run has exactly one of the keys PASS, FAIL, INVALID in its
\* ErrorCount, and that key is the RUN_STATUS column process_bb_files writes.
C2_ExactlyOneStatus ==
    /\ LogFinished => Cardinality(StatusKeys \cap DOMAIN error_count) = 1
    /\ RunAggregated => StatusKeys \cap DOMAIN error_count = {summary_row["RUN_STATUS"]}
C2_Witness ==
    /\ RunAggregated
    /\ summary_row["RUN_STATUS"] = "FAIL"
    /\ Has(error_count, "FAIL")

\* C3: a line whose designated token does not parse as a number makes the run
\* INVALID, and the batch is not aborted.
C3_MalformedTokenGivesInvalidRun ==
    /\ pc # "aborted"
    /\ (LogFinished /\ \E i \in DOMAIN log_lines : MalformedToken(log_lines[i]))
            => Has(error_count, "INVALID")

\* the rules that only count their matches
CounterCodes ==
    RuleCodes \ {"CANCEL_CLEANING_RUN", "SUSPENDED_AUTONOMY_STATES_RESET",
                 "ERROR_RAISED", "TOTAL_CLEANING_TIME", "AUTONOMOUS_DOCK",
                 "TOTAL_PAUSED_TIME", "NAVIGATION_FALLING",
                 "AVG_EXT_VOLTAGE_AFTER_RECONNECT"}
SuspendedStates ==
    {AUTONOMY_SUSPENDED_STATES[k] : k \in DOMAIN AUTONOMY_SUSPENDED_STATES}

\* C5 as stated: the final value of every single-pattern COUNTER rule equals
\* the number of decodable lines that contain its pattern.
C5_CounterEqualsMatchingLines ==
    LogFinished =>
        \A code \in CounterCodes :
            Get(error_count, code) = Cardinality(MatchingLines(ErrorDesc(code)))

\* C5 (amended): the final value of every single-pattern COUNTER rule that is
\* not in the reset rule's list of dependent counters equals the number of
\* decodable lines that contain its pattern.
C5_IndependentCounterEqualsMatchingLines ==
    LogFinished =>
        \A code \in CounterCodes \ SuspendedStates :
            Get(error_count, code) = Cardinality(MatchingLines(ErrorDesc(code)))
C5_Witness ==
    /\ LogFinished
    /\ Get(error_count, "COMPLETE_CLEANING_RUN") = 2
    /\ \E i \in DOMAIN log_lines : ~Decodable(log_lines[i])

\* the number of the composite rule's patterns that occur in the decodable
\* lines, summed over the first n lines
RECURSIVE CancelPatternOccurrences(_)
CancelPatternOccurrences(n) ==
    IF n = 0 THEN 0
    ELSE CancelPatternOccurrences(n - 1) +
         (IF Decodable(log_lines[n])
          THEN Cardinality({k \in DOMAIN ErrorDesc("CANCEL_CLEANING_RUN") :
                    Contains(log_lines[n], ErrorDesc("CANCEL_CLEANING_RUN")[k])})
          ELSE 0)

\* C6: the composite cancelled-run counter ends equal to the sum, over the
\* decodable lines, of the number of its patterns that occur in the line;
\* both patterns on one line count 2.
C6_CancelCountsEveryPattern ==
    LogFinished =>
        Get(error_count, "CANCEL_CLEANING_RUN") = CancelPatternOccurrences(Len(log_lines))
C6_Witness ==
    /\ LogFinished
    /\ log_lines = <<LineCancelBoth>>
    /\ Get(error_count, "CANCEL_CLEANING_RUN") = 2

(***************************************************************************)
(* Properties of the sensor pass and of the pose pass.                     *)
(***************************************************************************)
ProxFinished == pc = "prox_returned"
RowTs(i) == prox_rows[i]["TimeInMS"]
RowLabel(i) == CurTofErrorReading(prox_rows[i])

\* rows that start a maximal run of consecutive rows with one label
LabelRunStarts ==
    {i \in 1..Len(prox_rows) :
        /\ RowLabel(i) # None
        /\ (i = 1 \/ RowLabel(i - 1) # RowLabel(i))}

\* C4: after the final row the number of recorded bus-error intervals equals
\* the trigger counter, and an interval opened on the final row is recorded
\* with duration 0.
C4_OpenedIntervalsAreClosed ==
    ProxFinished =>
        /\ Cardinality(DOMAIN i2c_bus_errors) = Get(error_count, "TOF_SENSOR_ERRORS")
        /\ (Len(prox_rows) \in LabelRunStarts =>
                /\ RowTs(Len(prox_rows)) \in DOMAIN i2c_bus_errors
                /\ i2c_bus_errors[RowTs(Len(prox_rows))] =
                        <<RowLabel(Len(prox_rows)), 0>>)

\* C7: at end of stream the bus-error trigger counter equals the number of
\* maximal runs of consecutive rows that map to the same label.
C7_TriggerCountsLabelRuns ==
    ProxFinished =>
        Get(error_count, "TOF_SENSOR_ERRORS") = Cardinality(LabelRunStarts)

\* rows a..b hold one value of the field and the run is maximal
IsValueRun(field, a, b) ==
    /\ a <= b
    /\ \A i \in a..b : prox_rows[i][field] = prox_rows[a][field]
    /\ (a = 1 \/ prox_rows[a - 1][field] # prox_rows[a][field])
    /\ (b = Len(prox_rows) \/ prox_rows[b + 1][field] # prox_rows[a][field])
\* the row that ends the run: the first row with a different value, or the
\* final row of the stream
RunEndRow(b) == IF b = Len(prox_rows) THEN b ELSE b + 1

\* C8: every maximal run of one value not above the raw ceiling that is held
\* longer than the stale threshold is recorded as
\* (run start, field) -> (value, held time), a run that starts at timestamp 0
\* included.
C8_StaleRunsAreRecorded ==
    ProxFinished =>
        \A k \in DOMAIN STALE_TOF_READINGS_FIELDS :
            \A a, b \in 1..Len(prox_rows) :
                LET field == STALE_TOF_READINGS_FIELDS[k]
                    held == RowTs(RunEndRow(b)) - RowTs(a)
                IN  (/\ IsValueRun(field, a, b)
                     /\ prox_rows[a][field] <= RAW_CEILING
                     /\ held > STALE_TOF_READING_THRESHOLD)
                    => /\ <<RowTs(a), field>> \in DOMAIN stale_tof_readings
                       /\ stale_tof_readings[<<RowTs(a), field>>] =
                                <<prox_rows[a][field], held>>

\* the differences of consecutive timestamps that exceed the gap threshold
RECURSIVE GapsUpTo(_)
GapsUpTo(i) ==
    IF i < 2 THEN <<>>
    ELSE IF ExceedsLoggingGapThreshold(RowTs(i) - RowTs(i - 1))
         THEN Append(GapsUpTo(i - 1), RowTs(i) - RowTs(i - 1))
         ELSE GapsUpTo(i - 1)

\* C9: the logging-gap tracker records one gap event, with the difference as
\* its length, for every pair of consecutive rows whose timestamps differ by
\* more than 1.5 times the sampling period, and for no other pair.
C9_EveryGapIsRecorded ==
    ProxFinished =>
        /\ logging_gap_errors = GapsUpTo(Len(prox_rows))
        /\ Get(error_count, "PROX_READINGS_LOGGING_GAP") = Len(GapsUpTo(Len(prox_rows)))

\* C10: n > 10 subsamples that all lie at one position, whatever it is, yield
\* exactly one StationaryPeriod of n times the subsample period.
C10_ConstantPositionOnePeriod ==
    (/\ pc = "pose_returned"
     /\ Cardinality(pose_seen) = 1
     /\ Subsamples(cnt) > STATIONARY_TIME_ITERS_THRESHOLD)
    => stationary_errors = <<Subsamples(cnt) * READING_SUBSAMPLE_TIME>>

(***************************************************************************)
(* Properties of the statistics over the runs of a batch.                  *)
(***************************************************************************)
\* the rows "All logs" and "All logs %" follow the rows of the runs
SummaryRows == Len(autonomy_csv) - Len(run_results)
BucketOfRow(row) == <<row["LOG_NAME"][2], row["BUILD_VERSION"]>>
BucketAt(key) ==
    IF key \in DOMAIN autonomy_statistics THEN autonomy_statistics[key] ELSE EmptyDict
\* the events of a bucket that at least one run triggered
TriggeredEvents(bucket) == {e \in (DOMAIN bucket) \ {"count"} : bucket[e] > 0}

\* C11: no percentage is written before the last run of the batch has been
\* processed, and the percentage written for an event of a bucket is 100
\* times the bucket's final trigger count of the event divided by the
\* bucket's final count of runs; count 2 and one trigger give 50.
C11_PercentageIsTriggersOverCount ==
    /\ SummaryRows > 0 => log_idx = nfiles
    /\ \A k \in 1..(SummaryRows \div 2) :
        LET percentage_row == autonomy_csv[Len(run_results) + 2 * k]
            bucket == BucketAt(BucketOfRow(percentage_row))
        IN  \A event \in TriggeredEvents(bucket) :
                /\ percentage_row[event][2] # 0
                /\ percentage_row[event][1] * bucket["count"]
                        = 100 * bucket[event] * percentage_row[event][2]
C11_Witness ==
    /\ pc = "summarized"
    /\ \E k \in 1..(SummaryRows \div 2) :
        LET percentage_row == autonomy_csv[Len(run_results) + 2 * k]
            bucket == BucketAt(BucketOfRow(percentage_row))
        IN  /\ Get(bucket, "count") = 2
            /\ Get(bucket, "COMPLETE_CLEANING_RUN") = 1
            /\ percentage_row["COMPLETE_CLEANING_RUN"][1]
                    = 50 * percentage_row["COMPLETE_CLEANING_RUN"][2]

\* C12: the start location of a run is ON_BASE if a line reported the start
\* on the base, else OFF_BASE if a line reported the start off the base, else
\* ON_BASE if a line reported an undocking from the base, else OFF_BASE.
C12_StartLocationByPriority ==
    \A i \in DOMAIN run_results :
        LET r == run_results[i]
        IN  /\ r.started_where \in {"ON_BASE", "OFF_BASE"}
            /\ r.started_where =
                 (IF Get(r.error_count, "STARTED_ON_BASE") >= 1 THEN "ON_BASE"
                  ELSE IF Get(r.error_count, "STARTED_OFF_BASE") >= 1 THEN "OFF_BASE"
                  ELSE IF Get(r.error_count, "STARTED_ON_BASE_UNDOCKING") >= 1
                       THEN "ON_BASE"
                       ELSE "OFF_BASE")
            /\ \A code \in {"STARTED_ON_BASE", "STARTED_OFF_BASE",
                            "STARTED_ON_BASE_UNDOCKING"} :
                    Get(r.error_count, code) >= 1 <=> code \in r.matched
C12_Witness ==
    \E i \in DOMAIN run_results :
        /\ run_results[i].started_where = "OFF_BASE"
        /\ Get(run_results[i].error_count, "STARTED_OFF_BASE") >= 1
        /\ Get(run_results[i].error_count, "STARTED_ON_BASE_UNDOCKING") >= 1

(***************************************************************************)
(* Properties of the values the log-line pass stores.                      *)
(***************************************************************************)
\* the value the trailing token of a line reports for a rule that stores it
ReportedValue(code, line) ==
    IF code = "AUTONOMOUS_DOCK"
    THEN (IF LastToken(line) = W("true") THEN 1 ELSE 0)
    ELSE NumberVal(LastToken(line))
\* the value of the last line that matches the rule, 0 if there is none
LastReported(code) ==
    LET matching == MatchingLines(ErrorDesc(code))
    IN  IF matching = {} THEN 0
        ELSE ReportedValue(code, log_lines[CHOOSE i \in matching :
                                              \A j \in matching : j <= i])

\* C13: once the log file is finished the cleaning time in ErrorCount is the
\* last reported cleaning time minus the last reported paused time (0 if none
\* was reported); the difference is stored as it is, negative or not.
C13_NetCleaningTimeUnclamped ==
    LogFinished =>
        error_count["TOTAL_CLEANING_TIME"] =
            LastReported("TOTAL_CLEANING_TIME") - LastReported("TOTAL_PAUSED_TIME")
C13_Witness ==
    /\ LogFinished
    /\ MatchingLines(ErrorDesc("TOTAL_CLEANING_TIME")) # {}
    /\ LastReported("TOTAL_PAUSED_TIME") > LastReported("TOTAL_CLEANING_TIME")
    /\ error_count["TOTAL_CLEANING_TIME"] < 0

\* the locals of the scan after the first n lines if the lines that do not
\* decode were not in the file
RECURSIVE ScanDecodable(_)
ScanDecodable(n) ==
    IF n = 0
    THEN [ec |-> EmptyDict, raised |-> EmptyDict, started |-> FALSE, nav |-> <<>>,
          base |-> 0, last |-> DEFAULT_STATE, raise |-> FALSE]
    ELSE IF Decodable(log_lines[n]) THEN ScanLine(ScanDecodable(n - 1), log_lines[n])
         ELSE ScanDecodable(n - 1)

\* C14: during the scan ErrorCount, the raised-error map, the activity flag,
\* the captured timestamps and the last-transition field are what the
\* decodable lines alone produce: a line that does not decode changes none of
\* them, and the lines after it are classified as if it were not there.
C14_UndecodableLineChangesNothing ==
    pc = "log" =>
        LET s == ScanDecodable(Len(log_lines))
        IN  /\ error_count = s.ec
            /\ raised_errors = s.raised
            /\ cleaning_started = s.started
            /\ nav_falling_timestamps = s.nav
            /\ base_reconnected_timestamp = s.base
            /\ last_robot_state_transition = s.last
C14_Witness ==
    /\ pc = "log"
    /\ Len(log_lines) = 3
    /\ Decodable(log_lines[1])
    /\ ~Decodable(log_lines[2])
    /\ Decodable(log_lines[3])
    /\ raised_errors # EmptyDict
    /\ nav_falling_timestamps # <<>>

\* C15: during the scan the ErrorCount entry of the cleaning-time, paused-time
\* and autonomous-dock rules, once a line has matched the rule, is the value
\* of the trailing token of the last matching line.
C15_LastValueIsLastReport ==
    pc = "log" =>
        \A code \in {"TOTAL_CLEANING_TIME", "TOTAL_PAUSED_TIME", "AUTONOMOUS_DOCK"} :
            MatchingLines(ErrorDesc(code)) # {} =>
                /\ Has(error_count, code)
                /\ error_count[code] = LastReported(code)
C15_Witness ==
    /\ pc = "log"
    /\ Cardinality(MatchingLines(ErrorDesc("TOTAL_CLEANING_TIME"))) = 3
    /\ error_count["TOTAL_CLEANING_TIME"] = 20
    /\ log_lines[1] = LineCleaningTime

(***************************************************************************)
(* Properties of the buckets and of the transition failures.               *)
(***************************************************************************)
BucketKeys == {"ON_BASE", "OFF_BASE"} \X Builds
RunKey(r) == <<r.started_where, r.build>>
RunsOf(key) == {i \in DOMAIN run_results : RunKey(run_results[i]) = key}
AdditionColumns == {AUTONOMY_COLUMN_ADDITIONS[k][1] : k \in DOMAIN AUTONOMY_COLUMN_ADDITIONS}
AdditionValue(r, col) ==
    LET k == CHOOSE j \in DOMAIN AUTONOMY_COLUMN_ADDITIONS :
                AUTONOMY_COLUMN_ADDITIONS[j][1] = col
    IN  SumColumns(r.error_count, AUTONOMY_COLUMN_ADDITIONS[k][2], 1, 0).sum
\* the keys of the run's ErrorCount that are columns of the autonomy csv
RunTracked(r) ==
    ((DOMAIN StartedWhere(r.error_count).ec) \ StatusKeys) \cap AUTONOMY_CSV_HEADER
\* what one run, taken alone, hands to its bucket and to its row
RunEvents(r) == RunTracked(r) \cup {col \in AdditionColumns : AdditionValue(r, col) >= 1}
RunCounted(r) ==
    Has(r.error_count, "CLEANING_START") \/ Has(r.error_count, "SUSPENDED_CHARGING_START")
RunRowValue(r, col) ==
    IF col \in AdditionColumns THEN AdditionValue(r, col)
    ELSE IF col \in RunTracked(r) THEN StartedWhere(r.error_count).ec[col]
    ELSE 0
RunTransitions(i) ==
    {<<AUTONOMY_TRANSITIONS[k][1], i, run_results[i].build>> :
        k \in {j \in DOMAIN AUTONOMY_TRANSITIONS :
                /\ RunRowValue(run_results[i], AUTONOMY_TRANSITIONS[j][2]) >= 1
                /\ RunRowValue(run_results[i], AUTONOMY_TRANSITIONS[j][3]) = 0}}

\* C16: the count and the trigger counters of every bucket, and the set of
\* transition-failure records, are sums over the runs of what each run,
\* taken alone, contributes to the one bucket of its start location and
\* build, so they do not depend on the order of the runs; and what a log
\* file leaves in ErrorCount is what its own lines produce from a fresh
\* state, whatever was processed before it.
C16_RunsContributeOnceInAnyOrder ==
    /\ DOMAIN autonomy_statistics \subseteq BucketKeys
    /\ \A key \in BucketKeys :
        /\ Get(BucketAt(key), "count")
                = Cardinality({i \in RunsOf(key) : RunCounted(run_results[i])})
        /\ \A event \in AUTONOMY_CSV_HEADER :
                Get(BucketAt(key), event)
                    = Cardinality({i \in RunsOf(key) : event \in RunEvents(run_results[i])})
    /\ {transitions_csv[j] : j \in DOMAIN transitions_csv}
            = UNION {RunTransitions(i) : i \in DOMAIN run_results}
    /\ Len(transitions_csv)
            = Cardinality(UNION {RunTransitions(i) : i \in DOMAIN run_results})
    /\ pc \in {"pose", "pose_returned"} =>
            LET s == ScanDecodable(Len(log_lines))
            IN  error_count = FinalizeErrorCount(s.started, s.ec)
C16_Witness ==
    /\ RunAggregated
    /\ Len(run_results) = 2
    /\ RunKey(run_results[1]) # RunKey(run_results[2])
    /\ Has(run_results[1].error_count, "COMPLETE_CLEANING_RUN")
    /\ ~Has(run_results[2].error_count, "COMPLETE_CLEANING_RUN")
    /\ Get(BucketAt(RunKey(run_results[1])), "count") = 1
    /\ Get(BucketAt(RunKey(run_results[2])), "count") = 1

\* C17: for every run and every transition pair, exactly one record naming
\* the run and the transition is written if the row of the run has a value
\* of at least 1 for the start state and 0 for the end state, and none
\* otherwise; the two values are those of the run's own ErrorCount.
C17_TransitionFailurePerRun ==
    \A i \in DOMAIN run_results : \A k \in DOMAIN AUTONOMY_TRANSITIONS :
        LET row == autonomy_csv[i]
            start_state == AUTONOMY_TRANSITIONS[k][2]
            end_state == AUTONOMY_TRANSITIONS[k][3]
            transition_row == <<AUTONOMY_TRANSITIONS[k][1], i, run_results[i].build>>
        IN  /\ row["LOG_NAME"] = i
            /\ row[start_state] = RunRowValue(run_results[i], start_state)
            /\ row[end_state] = RunRowValue(run_results[i], end_state)
            /\ Cardinality({j \in DOMAIN transitions_csv :
                                transitions_csv[j] = transition_row})
                    = (IF row[start_state] >= 1 /\ row[end_state] = 0 THEN 1 ELSE 0)
C17_Witness ==
    /\ Len(run_results) = 2
    /\ RunKey(run_results[1]) = RunKey(run_results[2])
    /\ autonomy_csv[1]["CLEANING_START (sum)"] >= 1
    /\ autonomy_csv[1]["COMPLETE_CLEANING_RUN"] >= 1
    /\ autonomy_csv[2]["CLEANING_START (sum)"] >= 1
    /\ autonomy_csv[2]["COMPLETE_CLEANING_RUN"] = 0
    /\ transitions_csv = <<<<"CLEANING_TO_COMPLETE", 2, run_results[2].build>>>>

\* C18: the trigger counter of a bucket for a tracked code is the number of
\* runs of the bucket whose ErrorCount value for the code is not zero.
C18_TriggerOnlyForNonZeroValue ==
    \A key \in BucketKeys : \A code \in AUTONOMY_CSV_HEADER \cap RuleCodes :
        Get(BucketAt(key), code)
            = Cardinality({i \in RunsOf(key) : Get(run_results[i].error_count, code) # 0})

\* C19: the count of a bucket is the number of runs of the bucket in which a
\* line matched the cleaning-started rule or the suspended-charging-started
\* rule.
C19_CountedWhenStartLineMatched ==
    \A key \in BucketKeys :
        Get(BucketAt(key), "count")
            = Cardinality({i \in RunsOf(key) :
                    run_results[i].matched
                        \cap {"CLEANING_START", "SUSPENDED_CHARGING_START"} # {}})

\* C20: in every bucket no trigger counter exceeds the count, and the
\* division of the percentage is never attempted with a zero count.
C20_TriggersAtMostCount ==
    /\ \A key \in DOMAIN autonomy_statistics :
        \A event \in (DOMAIN autonomy_statistics[key]) \ {"count"} :
            autonomy_statistics[key][event] <= Get(autonomy_statistics[key], "count")
    /\ pc # "aborted"

(***************************************************************************)
(* Properties of the reset rule.                                           *)
(***************************************************************************)
\* the last line read decodes and matches the reset rule
ResetLineProcessed ==
    /\ pc = "log"
    /\ log_lines # <<>>
    /\ Decodable(log_lines[Len(log_lines)])
    /\ Contains(log_lines[Len(log_lines)], ErrorDesc("SUSPENDED_AUTONOMY_STATES_RESET"))

\* C21: once a line that matches the reset rule has been processed every
\* dependent counter is 0, whatever other rules the line matches, and the
\* counters outside the reset rule's list keep their number of matching lines.
C21_ResetLineLeavesDependentCountersZero ==
    ResetLineProcessed =>
        /\ \A state \in SuspendedStates : Get(error_count, state) = 0
        /\ \A code \in CounterCodes \ SuspendedStates :
                Get(error_count, code) = Cardinality(MatchingLines(ErrorDesc(code)))

(***************************************************************************)
(* Properties of the trackers of the sensor pass, row by row.              *)
(***************************************************************************)
\* rows i..j-1 carry one label and row j closes the interval opened at row i:
\* it has another label or none, or it is the final row of the file
ClosesInterval(i, j) ==
    /\ i < j
    /\ RowLabel(i) # None
    /\ \A k \in i..(j - 1) : RowLabel(k) = RowLabel(i)
    /\ (RowLabel(j) # RowLabel(i) \/ j = num_rows)

\* C22: every bus-error interval recorded under start timestamp s carries the
\* label that was active from the row at s onward, its duration is the
\* timestamp of the row that closed it minus s, and it is never negative.
C22_IntervalHasLabelAndDuration ==
    \A s \in DOMAIN i2c_bus_errors :
        /\ i2c_bus_errors[s][2] >= 0
        /\ \E i, j \in 1..Len(prox_rows) :
                /\ RowTs(i) = s
                /\ ClosesInterval(i, j)
                /\ i2c_bus_errors[s] = <<RowLabel(i), RowTs(j) - s>>
C22_Witness ==
    /\ Len(prox_rows) = 3
    /\ num_rows > 3
    /\ RowLabel(3) = "ERR2"
    /\ DOMAIN i2c_bus_errors = {10}
    /\ i2c_bus_errors[10] = <<"ERR1", 10>>

\* the row a step has read restarts the hold of the field: its value differs
\* from the held one or exceeds the raw ceiling, or it is the final row
RestartsHold(field) ==
    \/ prox_rows'[Len(prox_rows')][field] # last_tof_reading[field]
    \/ prox_rows'[Len(prox_rows')][field] > RAW_CEILING
    \/ Len(prox_rows') = num_rows

\* C23: on a row whose value differs from the held value or exceeds the raw
\* ceiling, or that is the final row, the held value becomes the row's value
\* and the hold start the row's timestamp, whether or not a stale record was
\* emitted; on every other row the held value and the hold start of the field
\* are unchanged.
C23_HoldRestartsExactlyOnChange ==
    [][prox_rows' # prox_rows =>
        \A k \in DOMAIN STALE_TOF_READINGS_FIELDS :
            LET field == STALE_TOF_READINGS_FIELDS[k]
            IN  IF RestartsHold(field)
                THEN /\ last_tof_reading'[field] = prox_rows'[Len(prox_rows')][field]
                     /\ tof_reading_start_time'[field] =
                            prox_rows'[Len(prox_rows')]["TimeInMS"]
                ELSE /\ last_tof_reading'[field] = last_tof_reading[field]
                     /\ tof_reading_start_time'[field] = tof_reading_start_time[field]]_vars
\* a value above the ceiling is repeated and its hold has restarted; a stale
\* record was emitted for the other field
C23_Witness ==
    /\ Len(prox_rows) = 3
    /\ num_rows > 3
    /\ \A i \in 2..3 : prox_rows[i]["TofLeft"] > RAW_CEILING
    /\ prox_rows[2]["TofLeft"] = prox_rows[3]["TofLeft"]
    /\ RowTs(3) > RowTs(2)
    /\ tof_reading_start_time["TofLeft"] = RowTs(3)
    /\ last_tof_reading["TofLeft"] = prox_rows[3]["TofLeft"]
    /\ prox_rows[2]["TofRight"] = prox_rows[3]["TofRight"]
    /\ tof_reading_start_time["TofRight"] < RowTs(2)
    /\ stale_tof_readings # EmptyDict

\* the rows read so far whose timestamp is after the reconnect timestamp, and
\* the first n of them
RowsAfterReconnect ==
    {i \in 1..Len(prox_rows) : RowTs(i) > base_reconnected_timestamp}
FirstRowsAfterReconnect(n) ==
    {i \in RowsAfterReconnect :
        Cardinality({j \in RowsAfterReconnect : j <= i}) <= n}
RECURSIVE SumOfField(_, _)
SumOfField(rows, field) ==
    IF rows = {} THEN 0
    ELSE LET i == CHOOSE i \in rows : TRUE
         IN  prox_rows[i][field] + SumOfField(rows \ {i}, field)

\* C24: the voltage averager writes once, on the 10th row after the reconnect
\* timestamp, the integer part of the mean of the voltage field over those 10
\* rows; no later row changes it and with fewer such rows nothing is written.
C24_AverageIsIntegerPartOfMean ==
    pc \in {"prox", "prox_returned"} =>
        IF Cardinality(RowsAfterReconnect) < EXT_VOLTAGE_SAMPLES
        THEN Get(error_count, "AVG_EXT_VOLTAGE_AFTER_RECONNECT") =
                Cardinality(MatchingLines(ErrorDesc("AVG_EXT_VOLTAGE_AFTER_RECONNECT")))
        ELSE error_count["AVG_EXT_VOLTAGE_AFTER_RECONNECT"] =
                SumOfField(FirstRowsAfterReconnect(EXT_VOLTAGE_SAMPLES),
                           EXTERNAL_VOLTAGE_FIELD) \div EXT_VOLTAGE_SAMPLES

(***************************************************************************)
(* Properties of the stationary detector, row by row.                      *)
(***************************************************************************)
\* a step that reads a row of the pose file, a subsampled one, and one whose
\* displacement from the recorded position is at least the threshold
PoseRowRead == pc = "pose" /\ cnt' = cnt + 1
SubsampleRead == PoseRowRead /\ cnt % READING_SUBSAMPLE_ITERS = 0
MovementRead ==
    /\ SubsampleRead
    /\ (cur_pose'[1] - last_pose[1]) * (cur_pose'[1] - last_pose[1])
        + (cur_pose'[2] - last_pose[2]) * (cur_pose'[2] - last_pose[2])
            >= STATIONARY_POSE_THRESHOLD * STATIONARY_POSE_THRESHOLD
\* the run that ends is emitted exactly when its counter exceeds the minimum
RunEmittedIfLong ==
    stationary_errors' =
        IF stationary_count > STATIONARY_TIME_ITERS_THRESHOLD
        THEN Append(stationary_errors, stationary_count * READING_SUBSAMPLE_TIME)
        ELSE stationary_errors

\* C25: at the end of the pose stream a run that is still open is emitted as a
\* period of run counter times subsample period exactly when the counter
\* exceeds the minimum; a run ended by a movement is emitted by the same rule,
\* and no other row emits a period, so each run that exceeds the minimum
\* yields exactly one period.
C25_OpenRunFlushedAtStreamEnd ==
    [][/\ (pc = "pose" /\ pc' = "pose_returned") => RunEmittedIfLong
       /\ MovementRead => RunEmittedIfLong
       /\ (PoseRowRead /\ ~MovementRead) => stationary_errors' = stationary_errors]_vars
C25_Witness ==
    /\ pc = "pose_returned"
    /\ last_pose # OriginPose
    /\ stationary_count = STATIONARY_TIME_ITERS_THRESHOLD + 1
    /\ stationary_errors =
            <<(STATIONARY_TIME_ITERS_THRESHOLD + 1) * READING_SUBSAMPLE_TIME>>

\* C26: the recorded position changes only on a subsample whose displacement
\* from it is at least the threshold, and that subsample resets the run
\* counter; a subsample below the threshold only increments the counter; a row
\* that is not subsampled changes nothing.  Every emitted period is c times
\* the subsample period for a run counter c above the minimum, and the
\* stationary error counter equals the number of emitted periods.
C26_DetectorStepsAndPeriods ==
    /\ [](/\ \A k \in DOMAIN stationary_errors :
                /\ stationary_errors[k] % READING_SUBSAMPLE_TIME = 0
                /\ stationary_errors[k] \div READING_SUBSAMPLE_TIME
                        > STATIONARY_TIME_ITERS_THRESHOLD
           /\ Get(error_count, "ROBOT_STATIONARY_ERROR") = Len(stationary_errors))
    /\ [][/\ last_pose' # last_pose => MovementRead
          /\ MovementRead => (last_pose' = cur_pose' /\ stationary_count' = 0)
          /\ (SubsampleRead /\ ~MovementRead) =>
               /\ stationary_count' = stationary_count + 1
               /\ UNCHANGED <<last_pose, stationary_errors, error_count>>
          /\ (PoseRowRead /\ ~SubsampleRead) =>
               UNCHANGED <<last_pose, stationary_count, stationary_errors,
                           error_count>>]_vars
C26_Witness ==
    /\ pc = "pose"
    /\ cur_pose = <<30, 0>>
    /\ last_pose = cur_pose
    /\ stationary_count = 0
    /\ stationary_errors =
            <<(STATIONARY_TIME_ITERS_THRESHOLD + 1) * READING_SUBSAMPLE_TIME>>

(***************************************************************************)
(* Properties of the tail of a run in process_bb_files.                    *)
(***************************************************************************)
\* the sum of the values of the codes in an ErrorCount, a missing code
\* counting as 0
RECURSIVE BaseCodeSum(_, _)
BaseCodeSum(ec, codes) ==
    IF codes = <<>> THEN 0
    ELSE (IF Head(codes) \in DOMAIN ec THEN ec[Head(codes)] ELSE 0)
            + BaseCodeSum(ec, Tail(codes))

\* C27: for each composite column the value in the run's aggregate row is the
\* sum of the run's ErrorCount values of its base codes, a missing code
\* counting as 0, and the run increments the bucket's trigger counter of the
\* composite exactly when the sum is not 0.
C27_CompositeIsSumOfBaseCodes ==
    [][log_idx' = log_idx + 1 =>
        LET key == RunKey(run_results'[Len(run_results')])
            row == autonomy_csv'[Len(autonomy_csv')]
            after == IF key \in DOMAIN autonomy_statistics'
                     THEN autonomy_statistics'[key] ELSE EmptyDict
        IN  \A k \in DOMAIN AUTONOMY_COLUMN_ADDITIONS :
                LET addition_col == AUTONOMY_COLUMN_ADDITIONS[k][1]
                    addition == BaseCodeSum(error_count, AUTONOMY_COLUMN_ADDITIONS[k][2])
                IN  /\ row[addition_col] = addition
                    /\ Get(after, addition_col) =
                            Get(BucketAt(key), addition_col)
                                + (IF addition # 0 THEN 1 ELSE 0)]_vars
\* a run whose two base codes add up to 2 follows a run whose sum is 0
C27_Witness ==
    /\ RunAggregated
    /\ Len(run_results) = 2
    /\ Get(BucketAt(RunKey(run_results[1])), "CLEANING_START (sum)") = 0
    /\ autonomy_csv[1]["CLEANING_START (sum)"] = 0
    /\ autonomy_csv[2]["CLEANING_START (sum)"] = 2
    /\ Get(run_results[2].error_count, "CLEANING_START") = 1
    /\ Get(run_results[2].error_count, "SUSPENDED_CHARGING_START") = 1
    /\ Get(BucketAt(RunKey(run_results[2])), "CLEANING_START (sum)") = 1

(***************************************************************************)
(* Properties of the reconnect entry after both passes of a run.           *)
(***************************************************************************)
\* the lines that match the reconnect rule, the timestamp of the last of
\* them (0 without one), and the sensor rows after that timestamp
ReconnectLines == MatchingLines(ErrorDesc("AVG_EXT_VOLTAGE_AFTER_RECONNECT"))
ReconnectTimestamp ==
    IF ReconnectLines = {} THEN 0
    ELSE NumberVal(TimestampToken(
            log_lines[CHOOSE i \in ReconnectLines : \A j \in ReconnectLines : j <= i]))
RowsAfter(ts) == {i \in 1..Len(prox_rows) : RowTs(i) > ts}

\* C28: after the log-line pass and the sensor pass of a run the reconnect
\* entry of ErrorCount holds something else than the number of log lines that
\* matched the reconnect rule only if at least 10 sensor rows have a timestamp
\* after the reconnect timestamp; with a reconnect line and fewer such rows it
\* still holds that number of lines.
C28_ReconnectEntryIsLineCountBelowTenRows ==
    pc = "prox_returned" =>
        /\ Get(error_count, "AVG_EXT_VOLTAGE_AFTER_RECONNECT") # Cardinality(ReconnectLines)
                => Cardinality(RowsAfter(ReconnectTimestamp)) >= 10
        /\ (ReconnectLines # {} /\ Cardinality(RowsAfter(ReconnectTimestamp)) < 10)
                => /\ Has(error_count, "AVG_EXT_VOLTAGE_AFTER_RECONNECT")
                   /\ error_count["AVG_EXT_VOLTAGE_AFTER_RECONNECT"]
                            = Cardinality(ReconnectLines)
\* two reconnect lines at timestamp 100 and ten sensor rows, the first of
\* them at timestamp 100: nine rows after the reconnect, the entry is 2
C28_Witness ==
    /\ pc = "prox_returned"
    /\ Cardinality(ReconnectLines) = 2
    /\ Len(prox_rows) = 10
    /\ Cardinality(RowsAfter(ReconnectTimestamp)) = 9
    /\ error_count["AVG_EXT_VOLTAGE_AFTER_RECONNECT"] = 2

(***************************************************************************)
(* Properties of the cross-run counters.                                   *)
(***************************************************************************)
\* C29: after k runs the cross-run counters of PASS, FAIL and INVALID sum to
\* k and the NO_CLEANING_RUN counter is 0: the ErrorCount the aggregation
\* step inspects is never empty, it holds a status key and the cleaning-time
\* key.
C29_StatusCountersSumToRuns ==
    /\ Get(overall_error_count, "PASS") + Get(overall_error_count, "FAIL")
            + Get(overall_error_count, "INVALID") = log_idx
    /\ Get(overall_error_count, "NO_CLEANING_RUN") = 0
    /\ Len(run_results) = log_idx
    /\ \A i \in DOMAIN run_results :
            /\ StatusKeys \cap DOMAIN run_results[i].error_count # {}
            /\ Has(run_results[i].error_count, "TOTAL_CLEANING_TIME")
    /\ pc \in {"pose_returned", "prox_returned"} =>
            /\ StatusKeys \cap DOMAIN error_count # {}
            /\ Has(error_count, "TOTAL_CLEANING_TIME")
C29_Witness ==
    /\ RunAggregated
    /\ log_idx = 2
    /\ Get(overall_error_count, "PASS") = 1
    /\ Get(overall_error_count, "INVALID") = 1
    /\ run_results[2].matched = {}

(***************************************************************************)
(* Properties of the logging-gap tracker, row by row.                      *)
(***************************************************************************)
\* C30: after every row the logging-gap counter of ErrorCount equals the
\* number of recorded gap lengths, and every recorded length is strictly
\* greater than the gap threshold (1.5 sampling periods) and is the difference
\* of the timestamps of two consecutive rows.
C30_GapCounterMatchesRecordedGaps ==
    /\ Get(error_count, "PROX_READINGS_LOGGING_GAP") = Len(logging_gap_errors)
    /\ \A k \in DOMAIN logging_gap_errors :
            /\ 2 * logging_gap_errors[k] > 3 * LOGGING_FREQUENCY
            /\ \E i \in 2..Len(prox_rows) :
                    logging_gap_errors[k] = RowTs(i) - RowTs(i - 1)
\* a gap of exactly 1.5 sampling periods, not recorded, then one of 2
C30_Witness ==
    /\ pc = "prox"
    /\ Len(prox_rows) = 3
    /\ 2 * (RowTs(2) - RowTs(1)) = 3 * LOGGING_FREQUENCY
    /\ RowTs(3) - RowTs(2) = 2 * LOGGING_FREQUENCY
    /\ logging_gap_errors = <<2 * LOGGING_FREQUENCY>>
    /\ error_count["PROX_READINGS_LOGGING_GAP"] = 1

=============================================================================
